---- MODULE Spec2Model ----
(***************************************************************************)
(* Rewards ledger of splinterlands-tools: the reward feed parser, the      *)
(* season filter, the category aggregator, the price oracle and the        *)
(* payout split.                                                           *)
(*                                                                         *)
(* Numbers.  The program computes in floats; the model computes in exact   *)
(* integers.  Token amounts are whole tokens.  Prices are in units of      *)
(* 1/100 USD per token (0.35 USD is 35, the sps ceiling 1.0 is 100), so a   *)
(* USD total is in units of 1/100 USD.                                     *)
(*                                                                         *)
(* Python values.  A JSON / Python value of unknown type is a record       *)
(* [t, n, items]: t is its type tag, n its number when it has one, items   *)
(* its (key, value) pairs in insertion order when it is a dict.            *)
(* Optional[X] is a sequence: << >> is None and << x >> is the value x.    *)
(***************************************************************************)
EXTENDS Integers, Sequences, FiniteSets, TLC

VARIABLES
    season,            \* SeasonWindow the page / CLI works on
    feed,              \* payload of players/unclaimed_balance_history
    rewards,           \* list[RewardEntry] returned by the feed parser
    tournaments,       \* tournaments argument of aggregate_totals
    prices,            \* PriceQuotes.token_to_usd given to aggregate_totals
    rewards_list,      \* aggregate_totals: local rewards_list
    tournaments_list,  \* aggregate_totals: local tournaments_list
    totals,            \* AggregatedTotals returned by aggregate_totals
    pc,                \* position of the rewards pipeline
    price_payload,     \* payload of prices.splinterlands.com/prices
    quote,             \* one raw quote handed to the extractors
    extracted,         \* _extract_price(quote)
    coerced,           \* _coerce_price(quote)
    overall_usd,       \* render_page: overall_usd of one account
    scholar_pct,       \* render_page: scholar_pct
    scholar_share_usd, \* render_page: scholar_share_usd
    owner_share_usd,   \* render_page: owner_share_usd
    currency,          \* _format_scholar_payout: currency
    explicit_sps,      \* _format_scholar_payout: explicit_sps
    payout_display,    \* the string _format_scholar_payout returned
    args_scholar_pct,  \* season_sync main: args.scholar_pct
    usernames,         \* season_sync main: usernames still to sync
    season_table,      \* rows upserted into the season totals table
    schemes,           \* series page: fetch_point_schemes()
    scheme,            \* series page: the selected scheme slug
    scheme_def,        \* series page: _resolve_scheme(scheme_map, scheme)
    leaderboard,       \* live leaderboard entries still to score
    result_rows,       \* result rows of the series
    totals_map,        \* per-player accumulators, in insertion order
    cutoff,            \* qualification cutoff of the series
    total_rows,        \* rows of the rendered series leaderboard
    history_record,    \* rewards page: one stored season record
    history_totals,    \* _aggregated_totals_from_record(record)
    totals_again,      \* aggregate_totals of a rerun over the same inputs
    previous_season,   \* rewards page: season_options["Previous"]
    previous_rewards_list,     \* rewards_list of the Previous season
    previous_tournaments_list, \* tournaments_list of the Previous season
    page_limit,        \* fetch_unclaimed_balance_history_for_season: page_limit
    offset,            \* fetch_unclaimed_balance_history_for_season: offset
    season_entries,    \* fetch_unclaimed_balance_history_for_season: entries
    creds,             \* storage: _get_supabase_credentials() is not None
    last_error,        \* storage: the module global _last_error
    organizers,        \* refresh_tournament_ingest_all: organizers
    ingested,          \* what became of each organizer's ingest so far
    failures,          \* refresh_tournament_ingest_all: failures
    ok,                \* series page: ok = refresh_tournament_ingest_all(...)
    sessions           \* two sessions loading tournaments from the database

vars == << season, feed, rewards, tournaments, prices, rewards_list,
           tournaments_list, totals, pc, price_payload, quote, extracted,
           coerced, overall_usd, scholar_pct, scholar_share_usd,
           owner_share_usd, currency, explicit_sps, payout_display,
           args_scholar_pct, usernames, season_table, schemes, scheme,
           scheme_def, leaderboard, result_rows, totals_map, cutoff,
           total_rows, history_record, history_totals,
           totals_again, previous_season, previous_rewards_list,
           previous_tournaments_list, page_limit, offset, season_entries,
           creds, last_error, organizers, ingested, failures, ok, sessions >>

payoutVars == << currency, explicit_sps, payout_display >>
syncVars == << args_scholar_pct, usernames, season_table >>
seriesVars == << schemes, scheme, scheme_def, leaderboard, result_rows,
                 totals_map, cutoff, total_rows >>
previousVars == << previous_season, previous_rewards_list,
                  previous_tournaments_list >>
pagingVars == << page_limit, offset, season_entries >>
storageVars == << creds, last_error, organizers, ingested, failures, ok,
                 sessions >>
restVars == << history_record, history_totals, totals_again, previousVars,
              pagingVars, storageVars >>

----------------------------------------------------------------------------
(* Bounds of the model *)

MaxFeed == 2
MaxTournaments == 1
MaxQuotes == 2
MaxDictKeys == 2
MaxOverallUsd == 100
MaxCliPct == 150
MaxRules == 2
MaxResultRows == 3
MaxPlacings == 18
MaxHistory == 3
MaxOrganizers == 2

----------------------------------------------------------------------------
(* Python values *)

Num(n) == [t |-> "num", n |-> n, items |-> << >>]
NumStr(n) == [t |-> "numstr", n |-> n, items |-> << >>]
BadStr == [t |-> "str", n |-> 0, items |-> << >>]
NoneV == [t |-> "none", n |-> 0, items |-> << >>]
DictV(kvs) == [t |-> "dict", n |-> 0, items |-> kvs]

IsNumber(v) == v.t = "num"

Truthy(v) ==
    CASE v.t = "num" -> v.n # 0
      [] v.t = "none" -> FALSE
      [] v.t = "dict" -> Len(v.items) > 0
      [] OTHER -> TRUE

PyOr(a, b) == IF Truthy(a) THEN a ELSE b

JsonNull == "null"

PyStr(s) == IF s = JsonNull THEN "None" ELSE s

StrLower(s) ==
    CASE s = "SPS" -> "sps"
      [] s = "DEC" -> "dec"
      [] s = "VOUCHER" -> "voucher"
      [] s = "HIVE" -> "hive"
      [] s = "ETH" -> "eth"
      [] s = "None" -> "none"
      [] s = "NONE" -> "none"
      [] s = "Wild" -> "wild"
      [] s = "SURVIVAL" -> "survival"
      [] s = "Brawl" -> "brawl"
      [] s = "USD" -> "usd"
      [] s = "BTC" -> "btc"
      [] s = "Multiplier" -> "multiplier"
      [] OTHER -> s

StrUpper(s) ==
    CASE s = "sps" -> "SPS"
      [] s = "dec" -> "DEC"
      [] s = "voucher" -> "VOUCHER"
      [] s = "hive" -> "HIVE"
      [] s = "eth" -> "ETH"
      [] s = "None" -> "NONE"
      [] s = "none" -> "NONE"
      [] s = "usd" -> "USD"
      [] s = "btc" -> "BTC"
      [] OTHER -> s

DictGet(d, k) == IF k \in DOMAIN d THEN d[k] ELSE NoneV

RECURSIVE SumOver(_, _)
SumOver(S, f) ==
    IF S = {} THEN 0
    ELSE LET x == CHOOSE y \in S : TRUE
         IN f[x] + SumOver(S \ {x}, f)

----------------------------------------------------------------------------
(* scholar_helper/services/api.py: the reward feed parser *)

_coerce_float(value) ==
    CASE value.t = "none" -> << >>
      [] value.t = "num" -> << value.n >>
      [] value.t = "numstr" -> << value.n >>
      [] OTHER -> << >>

(* The entry the parser appends.  id, player and raw take no part in the    *)
(* aggregation and are left out; so is the username keyword of the call,   *)
(* which is not a field of the dataclass in models/types.py.               *)
RewardEntry(raw) ==
    [token |-> PyStr(raw.token),
     amount |-> _coerce_float(PyOr(raw.amount, Num(0)))[1],
     type |-> raw.type,
     created_date |-> raw.created_date]

(* Mutant of SkipAdjustment: only an unparsable amount is skipped. *)
SkipAdjustment_unparsable_only(amount) == amount = << >>

(* if amount is None or amount <= 0: continue *)
SkipAdjustment(amount) == amount = << >> \/ amount[1] <= 0

RECURSIVE fetch_unclaimed_balance_history(_)
fetch_unclaimed_balance_history(payload) ==
    IF payload = << >> THEN << >>
    ELSE LET raw == Head(payload)
             amount == _coerce_float(PyOr(raw.amount, Num(0)))
             rest == fetch_unclaimed_balance_history(Tail(payload))
         IN IF SkipAdjustment(amount)
            THEN rest
            ELSE << RewardEntry(raw) >> \o rest

----------------------------------------------------------------------------
(* scholar_helper/services/api.py: the price oracle *)

PRICE_KEYS == << "usd", "USD", "price", "last", "close" >>

DictValueOf(value, k) ==
    LET hits == SelectSeq(value.items, LAMBDA kv : kv[1] = k)
    IN IF hits = << >> THEN NoneV ELSE hits[1][2]

DictValues(value) == [i \in 1..Len(value.items) |-> value.items[i][2]]

PositiveOrNone(price_val) == IF price_val > 0 THEN << price_val >> ELSE << >>

RECURSIVE FirstCoercible(_)
FirstCoercible(candidates) ==
    IF candidates = << >> THEN << >>
    ELSE LET candidate_val == _coerce_float(Head(candidates))
         IN IF candidate_val # << >>
            THEN PositiveOrNone(candidate_val[1])
            ELSE FirstCoercible(Tail(candidates))

_extract_price(value) ==
    LET price_val == _coerce_float(value)
    IN IF price_val # << >> THEN PositiveOrNone(price_val[1])
       ELSE IF value.t = "dict"
       THEN FirstCoercible([i \in 1..Len(PRICE_KEYS) |->
                               DictValueOf(value, PRICE_KEYS[i])])
       ELSE << >>

ceilings ==
    [token \in {"sps", "dec", "voucher", "glx", "glusd", "hive", "hbd"} |->
        CASE token = "sps" -> 100
          [] token = "dec" -> 1
          [] token = "voucher" -> 200
          [] token = "glx" -> 100
          [] OTHER -> 1000]

(* Mutant of _sanitize_price: a quote above the ceiling is clamped to it. *)
_sanitize_price_clamped(token, price) ==
    LET cap == DictGet([k \in DOMAIN ceilings |-> Num(ceilings[k])], StrLower(token))
    IN IF cap # NoneV /\ price > cap.n THEN << cap.n >> ELSE << price >>

_sanitize_price(token, price) ==
    LET cap == DictGet([k \in DOMAIN ceilings |-> Num(ceilings[k])], StrLower(token))
    IN IF cap # NoneV /\ price > cap.n THEN << >> ELSE << price >>

RECURSIVE fetch_prices_loop(_, _)
fetch_prices_loop(data, acc) ==
    IF data = << >> THEN acc
    ELSE LET key == Head(data)[1]
             value == Head(data)[2]
             extracted_ == _extract_price(value)
             token_key == StrLower(key)
             sanitized == IF extracted_ = << >> THEN << >>
                          ELSE _sanitize_price(token_key, extracted_[1])
         IN IF sanitized = << >>
            THEN fetch_prices_loop(Tail(data), acc)
            ELSE fetch_prices_loop(
                     Tail(data),
                     [k \in DOMAIN acc \cup {token_key} |->
                         IF k = token_key THEN Num(sanitized[1]) ELSE acc[k]])

fetch_prices(data) == fetch_prices_loop(data, [k \in {} |-> NoneV])

----------------------------------------------------------------------------
(* scholar_helper/models/types.py and scholar_helper/services/aggregation.py *)

(* Mutant of PriceQuotes_get: only the lower-cased key is looked up. *)
PriceQuotes_get_lower_only(token_to_usd, token) ==
    DictGet(token_to_usd, StrLower(token))

PriceQuotes_get(token_to_usd, token) ==
    PyOr(DictGet(token_to_usd, StrLower(token)),
         DictGet(token_to_usd, StrUpper(token)))

RANKED_TYPES == {"modern", "wild", "survival"}
BRAWL_TYPES == {"brawl"}

(* Mutant of InSeason: the end of the window is excluded. *)
InSeason_end_excluded(s, d) == s.starts <= d /\ d < s.ends

(* season.starts <= date <= season.ends *)
InSeason(s, d) == s.starts <= d /\ d <= s.ends

RECURSIVE filter_rewards_for_season(_, _)
filter_rewards_for_season(rs, s) ==
    IF rs = << >> THEN << >>
    ELSE LET reward == Head(rs)
             rest == filter_rewards_for_season(Tail(rs), s)
         IN IF InSeason(s, reward.created_date)
            THEN << reward >> \o rest
            ELSE rest

(* Mutant of KeepsTournament: a tournament without a date is dropped. *)
KeepsTournament_dated_only(t, s) ==
    t.start_date # << >> /\ InSeason(s, t.start_date[1])

(* filter_tournaments_for_season: the two branches that append t *)
KeepsTournament(t, s) ==
    IF t.start_date = << >> THEN TRUE ELSE InSeason(s, t.start_date[1])

RECURSIVE filter_tournaments_for_season(_, _)
filter_tournaments_for_season(ts, s) ==
    IF ts = << >> THEN << >>
    ELSE LET t == Head(ts)
             rest == filter_tournaments_for_season(Tail(ts), s)
         IN IF KeepsTournament(t, s) THEN << t >> \o rest ELSE rest

RECURSIVE FirstNumber(_)
FirstNumber(candidates) ==
    IF candidates = << >> THEN << >>
    ELSE IF IsNumber(Head(candidates)) THEN << Head(candidates).n >>
    ELSE FirstNumber(Tail(candidates))

_coerce_price(value) ==
    IF IsNumber(value) THEN << value.n >>
    ELSE IF value.t = "dict"
    THEN LET named == FirstNumber([i \in 1..Len(PRICE_KEYS) |->
                                       DictValueOf(value, PRICE_KEYS[i])])
         IN IF named # << >> THEN named ELSE FirstNumber(DictValues(value))
    ELSE << >>

RECURSIVE token_amounts_of(_, _)
token_amounts_of(items, acc) ==
    IF items = << >> THEN acc
    ELSE LET token_key == StrUpper(PyStr(Head(items).token))
             amount == Head(items).amount
             next == [k \in DOMAIN acc \cup {token_key} |->
                         (IF k \in DOMAIN acc THEN acc[k] ELSE 0)
                         + (IF k = token_key THEN amount ELSE 0)]
         IN token_amounts_of(Tail(items), next)

EmptyDict == [k \in {} |-> 0]

PriceOf(token_to_usd, token) ==
    LET price_raw == PyOr(PyOr(PriceQuotes_get(token_to_usd, token),
                               PriceQuotes_get(token_to_usd, StrLower(token))),
                          Num(0))
        price == _coerce_price(price_raw)
    IN IF price = << >> \/ price[1] = 0 THEN 0 ELSE price[1]

_sum_token_amounts(items, token_to_usd) ==
    LET token_amounts == token_amounts_of(items, EmptyDict)
    IN [token_amounts |-> token_amounts,
        usd |-> SumOver(DOMAIN token_amounts,
                        [tk \in DOMAIN token_amounts |->
                            token_amounts[tk] * PriceOf(token_to_usd, tk)])]

(* Mutant of TypeIn: the type is matched case-sensitively. *)
TypeIn_case_sensitive(r, types) == r.type \in types

(* r.type.lower() in RANKED_TYPES / BRAWL_TYPES *)
TypeIn(r, types) == StrLower(r.type) \in types

RECURSIVE SelectByType(_, _)
SelectByType(rs, types) ==
    IF rs = << >> THEN << >>
    ELSE LET rest == SelectByType(Tail(rs), types)
         IN IF TypeIn(Head(rs), types)
            THEN << Head(rs) >> \o rest
            ELSE rest

RECURSIVE tournament_reward_tokens_of(_)
tournament_reward_tokens_of(ts) ==
    IF ts = << >> THEN << >>
    ELSE Head(ts).rewards \o tournament_reward_tokens_of(Tail(ts))

RECURSIVE entry_fees_of(_)
entry_fees_of(ts) ==
    IF ts = << >> THEN << >>
    ELSE (IF Head(ts).entry_fee # << >> THEN Head(ts).entry_fee ELSE << >>)
         \o entry_fees_of(Tail(ts))

(* Mutant of overall_buckets: the entry fees are folded into overall too. *)
overall_buckets_with_fees(ranked, brawl, tournament, entry_fees) ==
    << ranked, brawl, tournament, entry_fees >>

(* for bucket in (ranked_totals, brawl_totals, tournament_totals) *)
overall_buckets(ranked, brawl, tournament, entry_fees) ==
    << ranked, brawl, tournament >>

RECURSIVE overall_tokens_of(_, _)
overall_tokens_of(buckets, acc) ==
    IF buckets = << >> THEN acc
    ELSE LET b == Head(buckets).token_amounts
             next == [k \in DOMAIN acc \cup DOMAIN b |->
                         (IF k \in DOMAIN acc THEN acc[k] ELSE 0)
                         + (IF k \in DOMAIN b THEN b[k] ELSE 0)]
         IN overall_tokens_of(Tail(buckets), next)

NoTotals ==
    [raised |-> "none",
     ranked |-> [token_amounts |-> EmptyDict, usd |-> 0],
     brawl |-> [token_amounts |-> EmptyDict, usd |-> 0],
     tournament |-> [token_amounts |-> EmptyDict, usd |-> 0],
     entry_fees |-> [token_amounts |-> EmptyDict, usd |-> 0],
     overall |-> [token_amounts |-> EmptyDict, usd |-> 0]]

aggregate_totals(s, rs, ts, token_to_usd) ==
    LET rl == filter_rewards_for_season(rs, s)
        tl == filter_tournaments_for_season(ts, s)
        ranked_totals == _sum_token_amounts(SelectByType(rl, RANKED_TYPES), token_to_usd)
        brawl_totals == _sum_token_amounts(SelectByType(rl, BRAWL_TYPES), token_to_usd)
        tournament_totals == _sum_token_amounts(tournament_reward_tokens_of(tl), token_to_usd)
        entry_fee_totals == _sum_token_amounts(entry_fees_of(tl), token_to_usd)
        overall_tokens == overall_tokens_of(
                              overall_buckets(ranked_totals, brawl_totals,
                                              tournament_totals, entry_fee_totals),
                              EmptyDict)
        quote_of == [tk \in DOMAIN overall_tokens |->
                        PyOr(PriceQuotes_get(token_to_usd, tk), Num(0))]
    IN IF \E tk \in DOMAIN overall_tokens : ~IsNumber(quote_of[tk])
       THEN [NoTotals EXCEPT !.raised = "TypeError"]
       ELSE [raised |-> "",
             ranked |-> ranked_totals,
             brawl |-> brawl_totals,
             tournament |-> tournament_totals,
             entry_fees |-> entry_fee_totals,
             overall |-> [token_amounts |-> overall_tokens,
                          usd |-> SumOver(DOMAIN overall_tokens,
                                          [tk \in DOMAIN overall_tokens |->
                                              quote_of[tk].n * overall_tokens[tk]])]]

----------------------------------------------------------------------------
(* pages/20_Rewards_Tracker.py: the payout split *)

PCT == 100

(* Mutant of scholar_share_usd_of: scholar_pct / 100 as an integer division. *)
scholar_share_usd_floor_div(usd, pct) == usd * ((pct \div PCT) * PCT)

(* scholar_share_usd = overall_usd * (scholar_pct / 100) *)
scholar_share_usd_of(usd, pct) == usd * pct

(* owner_share_usd = overall_usd - scholar_share_usd *)
owner_share_usd_of(usd, share) == usd * PCT - share

----------------------------------------------------------------------------
(* features/scholar/service.py: _format_scholar_payout.                    *)
(* sps_amount and every rendered amount are in units of 1/100 token,       *)
(* usd_value is in units of 1/10000 USD and a rendered USD value in units  *)
(* of 1/100 USD.  The returned string is a record: kind "usd" is "$u",     *)
(* kind "amount" is "a CUR ($u)", kind "zero" is "0.00 CUR" and kind       *)
(* "dash" is "-".                                                          *)

(* f"{x:,.2f}" of the exact quotient num / den, den > 0: the nearest       *)
(* multiple of the last digit, a tie going to the even one.                *)
RoundHalfEven(num, den) ==
    LET q == num \div den
        r == num % den
    IN IF 2 * r < den THEN q
       ELSE IF 2 * r > den THEN q + 1
       ELSE IF q % 2 = 0 THEN q ELSE q + 1

_format_scholar_payout(currency_, totals_, scholar_pct_, token_to_usd, explicit_sps_) ==
    LET currency_key == StrUpper(currency_)
        overall_tokens == totals_.overall.token_amounts
        sps_amount == IF explicit_sps_ = << >>
                      THEN (IF "SPS" \in DOMAIN overall_tokens
                            THEN overall_tokens["SPS"] ELSE 0) * scholar_pct_
                      ELSE explicit_sps_[1]
        sps_price == PyOr(PyOr(PriceQuotes_get(token_to_usd, "SPS"),
                               PriceQuotes_get(token_to_usd, "sps")),
                          Num(0)).n
        usd_value == sps_amount * sps_price
        usd_text == RoundHalfEven(usd_value, 100)
        sps_text == [kind |-> "amount", amount |-> sps_amount,
                     currency |-> "SPS", usd |-> usd_text]
        target_price == PyOr(PriceQuotes_get(token_to_usd, currency_key),
                             PriceQuotes_get(token_to_usd, StrLower(currency_key)))
    IN IF currency_key = "USD"
       THEN [kind |-> "usd", amount |-> 0, currency |-> "USD", usd |-> usd_text]
       ELSE IF sps_amount = 0 \/ usd_value = 0
       THEN (IF currency_key = "SPS" THEN sps_text
             ELSE [kind |-> "zero", amount |-> 0,
                   currency |-> currency_key, usd |-> 0])
       ELSE IF currency_key = "SPS" THEN sps_text
       ELSE IF ~Truthy(target_price)
       THEN [kind |-> "dash", amount |-> 0, currency |-> "", usd |-> 0]
       ELSE [kind |-> "amount",
             amount |-> RoundHalfEven(usd_value, target_price.n),
             currency |-> currency_key, usd |-> usd_text]

----------------------------------------------------------------------------
(* series/tournament.py: point schemes and the points evaluator.           *)
(* A scheme is a record; an Optional field is << >> when the key is        *)
(* missing or null.  base_points, dnp_points and rule points are whole     *)
(* points, a rule multiplier is in tenths (3.0 is 30), and every points    *)
(* value the evaluator returns is in tenths of a point.                    *)

TENTH == 10

Rule(min_, max_, points_, multiplier_) ==
    [min |-> min_, max |-> max_, points |-> points_, multiplier |-> multiplier_]

DEFAULT_POINT_SCHEMES ==
    [slug \in {"balanced", "performance", "participation"} |->
        CASE slug = "balanced" ->
               [slug |-> "balanced", mode |-> "fixed",
                base_points |-> << 0 >>, dnp_points |-> << 0 >>,
                rules |-> << Rule(<< 1 >>, << 1 >>, << 25 >>, << >>),
                             Rule(<< 2 >>, << 2 >>, << 18 >>, << >>),
                             Rule(<< 3 >>, << 4 >>, << 12 >>, << >>),
                             Rule(<< 5 >>, << 8 >>, << 8 >>, << >>),
                             Rule(<< 9 >>, << 16 >>, << 5 >>, << >>),
                             Rule(<< 17 >>, << >>, << 2 >>, << >>) >>]
          [] slug = "performance" ->
               [slug |-> "performance", mode |-> "fixed",
                base_points |-> << 0 >>, dnp_points |-> << 0 >>,
                rules |-> << Rule(<< 1 >>, << 1 >>, << 50 >>, << >>),
                             Rule(<< 2 >>, << 2 >>, << 30 >>, << >>),
                             Rule(<< 3 >>, << 3 >>, << 20 >>, << >>),
                             Rule(<< 4 >>, << 4 >>, << 15 >>, << >>),
                             Rule(<< 5 >>, << 8 >>, << 10 >>, << >>),
                             Rule(<< 9 >>, << 16 >>, << 5 >>, << >>),
                             Rule(<< 17 >>, << >>, << 1 >>, << >>) >>]
          [] slug = "participation" ->
               [slug |-> "participation", mode |-> "multiplier",
                base_points |-> << 1 >>, dnp_points |-> << 0 >>,
                rules |-> << Rule(<< 1 >>, << 1 >>, << >>, << 30 >>),
                             Rule(<< 2 >>, << 2 >>, << >>, << 25 >>),
                             Rule(<< 3 >>, << 4 >>, << >>, << 20 >>),
                             Rule(<< 5 >>, << 8 >>, << >>, << 15 >>),
                             Rule(<< 9 >>, << 16 >>, << >>, << 12 >>),
                             Rule(<< 17 >>, << >>, << >>, << 10 >>) >>]]

(* scheme_map.get(slug): the last definition the registry lists under the  *)
(* slug, << >> when there is none.                                         *)
scheme_map_get(schemes_, slug) ==
    LET at == {i \in 1..Len(schemes_) : schemes_[i].slug = slug}
    IN IF at = {} THEN << >>
       ELSE << schemes_[CHOOSE i \in at : \A j \in at : j <= i] >>

(* Mutant of _resolve_scheme: no fallback to the built-in definitions. *)
_resolve_scheme_no_fallback(schemes_, slug) == scheme_map_get(schemes_, slug)

(* scheme_map.get(slug) or DEFAULT_POINT_SCHEMES.get(slug, {}) *)
_resolve_scheme(schemes_, slug) ==
    IF scheme_map_get(schemes_, slug) # << >>
    THEN scheme_map_get(schemes_, slug)
    ELSE IF slug \in DOMAIN DEFAULT_POINT_SCHEMES
         THEN << DEFAULT_POINT_SCHEMES[slug] >>
         ELSE << >>

(* x or 0 *)
OrZero(opt) == IF opt = << >> THEN 0 ELSE opt[1]

(* Mutant of Contains: the lower end of the range is not tested. *)
Contains_max_only(rule, finish_) ==
    /\ rule.min # << >>
    /\ (rule.max = << >> \/ finish_ <= rule.max[1])

(* Mutant of Contains: a finish at the lower end of the range is skipped. *)
Contains_above_min(rule, finish_) ==
    /\ rule.min # << >>
    /\ ~(finish_ <= rule.min[1])
    /\ ~(rule.max # << >> /\ finish_ > rule.max[1])

(* The rule is not skipped by any continue of the loop. *)
Contains(rule, finish_) ==
    /\ rule.min # << >>
    /\ ~(finish_ < rule.min[1])
    /\ ~(rule.max # << >> /\ finish_ > rule.max[1])

(* The two returns of a matching rule. *)
RulePoints(mode, base_points, rule) ==
    IF mode = "multiplier"
    THEN LET multiplier == IF rule.multiplier = << >> \/ rule.multiplier[1] = 0
                           THEN TENTH ELSE rule.multiplier[1]
         IN base_points * multiplier
    ELSE (base_points + OrZero(rule.points)) * TENTH

(* Mutant of ScanOrder: the rules are scanned from the last to the first. *)
ScanOrder_reversed(rules) ==
    [i \in 1..Len(rules) |-> rules[Len(rules) + 1 - i]]

(* for rule in rules *)
ScanOrder(rules) == rules

RECURSIVE ScanRules(_, _, _, _, _)
ScanRules(finish_, rules, mode, base_points, dnp_points) ==
    IF rules = << >> THEN dnp_points * TENTH
    ELSE IF Contains(Head(rules), finish_)
         THEN RulePoints(mode, base_points, Head(rules))
         ELSE ScanRules(finish_, Tail(rules), mode, base_points, dnp_points)

(* finish and the scheme are Optional; so is the result. *)
_calculate_points_for_finish(finish_, scheme_) ==
    IF scheme_ = << >> THEN << >>
    ELSE LET mode == StrLower(IF scheme_[1].mode = "" THEN "fixed"
                              ELSE scheme_[1].mode)
             base_points == OrZero(scheme_[1].base_points)
             dnp_points == OrZero(scheme_[1].dnp_points)
         IN IF finish_ = << >> THEN << dnp_points * TENTH >>
            ELSE << ScanRules(finish_[1], ScanOrder(scheme_[1].rules), mode,
                              base_points, dnp_points) >>

(* One row per entry of the live leaderboard, scored with the scheme. *)
_fetch_results_from_api(entries, scheme_) ==
    [i \in 1..Len(entries) |->
        [player |-> entries[i].player,
         finish |-> entries[i].finish,
         points |-> _calculate_points_for_finish(entries[i].finish, scheme_)]]

----------------------------------------------------------------------------
(* series/leaderboard.py: the fold of the result rows into per-player      *)
(* totals, the sort and the qualification cutoff.  Points and the cutoff   *)
(* are in tenths of a point.  totals_map is the dict in insertion order.   *)

(* str(...).strip() *)
StrStrip(s_) ==
    IF s_ = " alice" THEN "alice" ELSE IF s_ = " " THEN "" ELSE s_

(* Mutant of fold_row: the points of a row replace the points so far. *)
fold_row_overwrites(acc, row) ==
    LET player == StrStrip(row.player)
        pts == OrZero(row.points)
        at == {i \in 1..Len(acc) : acc[i].player = player}
        agg == IF at = {}
               THEN [player |-> player, points |-> 0, events |-> 0,
                     finishes |-> << >>, podiums |-> 0]
               ELSE acc[CHOOSE i \in at : TRUE]
        podium == row.finish # << >> /\ 1 <= row.finish[1] /\ row.finish[1] <= 3
        new_agg == [player |-> player,
                    points |-> pts,
                    events |-> agg.events + 1,
                    finishes |-> agg.finishes \o row.finish,
                    podiums |-> agg.podiums + (IF podium THEN 1 ELSE 0)]
    IN IF player = "" THEN acc
       ELSE IF at = {} THEN Append(acc, new_agg)
       ELSE [i \in 1..Len(acc) |-> IF i \in at THEN new_agg ELSE acc[i]]

(* Mutant of fold_row: a row without a player name is folded too. *)
fold_row_keeps_blank(acc, row) ==
    LET player == StrStrip(row.player)
        pts == OrZero(row.points)
        at == {i \in 1..Len(acc) : acc[i].player = player}
        agg == IF at = {}
               THEN [player |-> player, points |-> 0, events |-> 0,
                     finishes |-> << >>, podiums |-> 0]
               ELSE acc[CHOOSE i \in at : TRUE]
        podium == row.finish # << >> /\ 1 <= row.finish[1] /\ row.finish[1] <= 3
        new_agg == [player |-> player,
                    points |-> agg.points + pts,
                    events |-> agg.events + 1,
                    finishes |-> agg.finishes \o row.finish,
                    podiums |-> agg.podiums + (IF podium THEN 1 ELSE 0)]
    IN IF at = {} THEN Append(acc, new_agg)
       ELSE [i \in 1..Len(acc) |-> IF i \in at THEN new_agg ELSE acc[i]]

(* One iteration of "for row in result_rows". *)
fold_row(acc, row) ==
    LET player == StrStrip(row.player)
        pts == OrZero(row.points)
        at == {i \in 1..Len(acc) : acc[i].player = player}
        agg == IF at = {}
               THEN [player |-> player, points |-> 0, events |-> 0,
                     finishes |-> << >>, podiums |-> 0]
               ELSE acc[CHOOSE i \in at : TRUE]
        podium == row.finish # << >> /\ 1 <= row.finish[1] /\ row.finish[1] <= 3
        new_agg == [player |-> player,
                    points |-> agg.points + pts,
                    events |-> agg.events + 1,
                    finishes |-> agg.finishes \o row.finish,
                    podiums |-> agg.podiums + (IF podium THEN 1 ELSE 0)]
    IN IF player = "" THEN acc
       ELSE IF at = {} THEN Append(acc, new_agg)
       ELSE [i \in 1..Len(acc) |-> IF i \in at THEN new_agg ELSE acc[i]]

RECURSIVE fold_result_rows(_, _)
fold_result_rows(rows, acc) ==
    IF rows = << >> THEN acc
    ELSE fold_result_rows(Tail(rows), fold_row(acc, Head(rows)))

RECURSIVE SeqSum(_)
SeqSum(xs) == IF xs = << >> THEN 0 ELSE Head(xs) + SeqSum(Tail(xs))

(* Mutant of SeqMin: the first finish instead of the smallest one. *)
SeqMin_first(xs) == Head(xs)

RECURSIVE SeqMin(_)
SeqMin(xs) ==
    IF Len(xs) = 1 THEN Head(xs)
    ELSE IF Head(xs) <= SeqMin(Tail(xs)) THEN Head(xs) ELSE SeqMin(Tail(xs))

(* One row of total_rows.  Avg Finish is the quotient num / den; ticket    *)
(* says that the ticket icon is put before the player's name.              *)
total_row(agg) ==
    [Player |-> agg.player,
     Points |-> << agg.points >>,
     Events |-> agg.events,
     Avg_Finish |-> IF agg.finishes = << >> THEN << >>
                    ELSE << [num |-> SeqSum(agg.finishes),
                             den |-> Len(agg.finishes)] >>,
     Best |-> IF agg.finishes = << >> THEN << >> ELSE << SeqMin(agg.finishes) >>,
     Podiums |-> agg.podiums,
     ticket |-> FALSE]

(* Mutant of KeepsPlace: a row is put before the rows it ties with. *)
KeepsPlace_ties_move(earlier, later) == earlier.Points[1] > later.Points[1]

(* sort(key=Points, reverse=True) leaves earlier before later. *)
KeepsPlace(earlier, later) == earlier.Points[1] >= later.Points[1]

(* total_rows.sort(key=lambda r: r["Points"], reverse=True) *)
RECURSIVE sort_by_points(_, _)
sort_by_points(rows, sorted) ==
    IF rows = << >> THEN sorted
    ELSE LET row == Head(rows)
             before == {i \in 0..Len(sorted) :
                          \A j \in 1..i : KeepsPlace(sorted[j], row)}
             k == CHOOSE i \in before :
                      (i + 1 \in before) = FALSE
         IN sort_by_points(Tail(rows),
                SubSeq(sorted, 1, k) \o << row >> \o SubSeq(sorted, k + 1, Len(sorted)))

CutoffRow ==
    [Player |-> "Cutoff at", Points |-> << >>, Events |-> 0,
     Avg_Finish |-> << >>, Best |-> << >>, Podiums |-> 0, ticket |-> FALSE]

(* Mutant of cutoff_idx_of: the marker follows the first qualifying row. *)
cutoff_idx_first(qualifying_indexes) ==
    CHOOSE i \in qualifying_indexes : \A j \in qualifying_indexes : i <= j

(* cutoff_idx = qualifying_indexes[-1] *)
cutoff_idx_of(qualifying_indexes) ==
    CHOOSE i \in qualifying_indexes : \A j \in qualifying_indexes : j <= i

(* The rows after "if cutoff is not None and cutoff > 0". *)
apply_cutoff(rows, cutoff_) ==
    IF cutoff_ = << >> \/ cutoff_[1] <= 0 THEN rows
    ELSE LET qualifying_indexes ==
                 {i \in 1..Len(rows) : rows[i].Points[1] >= cutoff_[1]}
             marked == [i \in 1..Len(rows) |->
                           IF i \in qualifying_indexes
                           THEN [rows[i] EXCEPT !.ticket = TRUE] ELSE rows[i]]
         IN IF qualifying_indexes = {} THEN marked
            ELSE LET cutoff_idx == cutoff_idx_of(qualifying_indexes)
                 IN SubSeq(marked, 1, cutoff_idx) \o << CutoffRow >>
                    \o SubSeq(marked, cutoff_idx + 1, Len(marked))

series_leaderboard(totals_map_, cutoff_) ==
    apply_cutoff(
        sort_by_points([i \in 1..Len(totals_map_) |-> total_row(totals_map_[i])],
                       << >>),
        cutoff_)

----------------------------------------------------------------------------
(* Inputs of the rewards pipeline *)

Seasons == {[id |-> 7, starts |-> 2, ends |-> 4]}

(* One tick before the window, its two ends, one tick after it. *)
Times == {1, 2, 4, 5}

PlainRow == [token |-> "sps", amount |-> Num(2), type |-> "modern", created_date |-> 2]

FeedRows ==
    {[PlainRow EXCEPT !.created_date = d] : d \in Times}
    \cup {[PlainRow EXCEPT !.type = ty] :
             ty \in {"modern", "Wild", "SURVIVAL", "Brawl", "season"}}
    \cup {[PlainRow EXCEPT !.amount = a] :
             a \in {Num(-5), Num(0), Num(2), BadStr, NoneV}}
    \cup {[PlainRow EXCEPT !.token = tk] : tk \in {"sps", JsonNull}}

PlainTournament ==
    [start_date |-> << 2 >>,
     entry_fee |-> << [token |-> "VOUCHER", amount |-> 1] >>,
     rewards |-> << [token |-> "SPS", amount |-> 2] >>]

TournamentResults ==
    {[PlainTournament EXCEPT !.start_date = d] :
        d \in {<< >>} \cup {<< x >> : x \in {1, 4, 5}}}
    \cup {[PlainTournament EXCEPT !.entry_fee = << >>,
                                   !.rewards = << [token |-> "dec", amount |-> 1] >>]}

TournamentLists ==
    UNION {[1..n -> TournamentResults] : n \in 0..MaxTournaments}

PriceSnapshots ==
    {[k \in {"sps", "dec"} |-> IF k = "sps" THEN Num(q) ELSE Num(1)] :
             q \in {-50, 0, 35}}
    \cup {[k \in {"SPS"} |-> Num(35)]}

----------------------------------------------------------------------------
(* Parts of the program a specification does not exercise stay as they     *)
(* are before their first use.                                             *)

NoPayout == [kind |-> "", amount |-> 0, currency |-> "", usd |-> 0]

IdlePayout ==
    /\ currency = ""
    /\ explicit_sps = << >>
    /\ payout_display = NoPayout

IdleSync ==
    /\ args_scholar_pct = << >>
    /\ usernames = << >>
    /\ season_table = << >>

IdleSeries ==
    /\ schemes = << >>
    /\ scheme = ""
    /\ scheme_def = << >>
    /\ leaderboard = << >>
    /\ result_rows = << >>
    /\ totals_map = << >>
    /\ cutoff = << >>
    /\ total_rows = << >>

IdleRest ==
    /\ history_record = << >>
    /\ history_totals = NoTotals
    /\ totals_again = NoTotals
    /\ previous_season = << >>
    /\ previous_rewards_list = << >>
    /\ previous_tournaments_list = << >>
    /\ page_limit = 0
    /\ offset = 0
    /\ season_entries = << >>
    /\ creds = TRUE
    /\ last_error = << >>
    /\ organizers = << >>
    /\ ingested = << >>
    /\ failures = << >>
    /\ ok = << >>
    /\ sessions = << >>

----------------------------------------------------------------------------
(* The rewards pipeline: feed -> parser -> aggregate_totals *)

Init ==
    /\ season \in Seasons
    /\ feed = << >>
    /\ rewards = << >>
    /\ tournaments = << >>
    /\ prices = EmptyDict
    /\ rewards_list = << >>
    /\ tournaments_list = << >>
    /\ totals = NoTotals
    /\ pc = "feed"
    /\ price_payload = << >>
    /\ quote = NoneV
    /\ extracted = << >>
    /\ coerced = << >>
    /\ overall_usd = 0
    /\ scholar_pct = 0
    /\ scholar_share_usd = 0
    /\ owner_share_usd = 0
    /\ IdlePayout
    /\ IdleSync
    /\ IdleSeries
    /\ IdleRest

priceVars == << price_payload, quote, extracted, coerced >>
splitVars == << overall_usd, scholar_pct, scholar_share_usd, owner_share_usd >>

(* The remote history endpoint has one more row for the account. *)
FeedRow ==
    /\ pc = "feed"
    /\ Len(feed) < MaxFeed
    /\ \E raw \in FeedRows : feed' = Append(feed, raw)
    /\ UNCHANGED << restVars, season, rewards, tournaments, prices, rewards_list,
                    tournaments_list, totals, pc, priceVars, splitVars,
                    payoutVars, syncVars, seriesVars >>

FetchUnclaimedBalanceHistory ==
    /\ pc = "feed"
    /\ rewards' = fetch_unclaimed_balance_history(feed)
    /\ pc' = "fetched"
    /\ UNCHANGED << restVars, season, feed, tournaments, prices, rewards_list,
                    tournaments_list, totals, priceVars, splitVars,
                    payoutVars, syncVars, seriesVars >>

(* Mutant of after_iteration: the events are iterators, drained by the    *)
(* first comprehension that reads them.                                    *)
after_iteration_drained(items) == << >>

(* [r for r in rewards if ...] and the like: the callers pass lists, and a *)
(* list that a comprehension has read is the list it was.                  *)
after_iteration(items) == items

AggregateTotals ==
    /\ pc = "fetched"
    /\ \E ts \in TournamentLists, token_to_usd \in PriceSnapshots :
          /\ tournaments' = after_iteration(ts)
          /\ prices' = token_to_usd
          /\ rewards_list' = filter_rewards_for_season(rewards, season)
          /\ tournaments_list' = filter_tournaments_for_season(ts, season)
          /\ totals' = aggregate_totals(season, rewards, ts, token_to_usd)
    /\ rewards' = after_iteration(rewards)
    /\ pc' = "done"
    /\ UNCHANGED << restVars, season, feed, priceVars, splitVars,
                    payoutVars, syncVars, seriesVars >>

(* The page reruns: aggregate_totals is called again with the season, the *)
(* events and the prices it was given before.                              *)
AggregateTotalsAgain ==
    /\ pc = "done"
    /\ rewards_list' = filter_rewards_for_season(rewards, season)
    /\ tournaments_list' = filter_tournaments_for_season(tournaments, season)
    /\ totals_again' = aggregate_totals(season, rewards, tournaments, prices)
    /\ rewards' = after_iteration(rewards)
    /\ tournaments' = after_iteration(tournaments)
    /\ pc' = "again"
    /\ UNCHANGED << season, feed, prices, totals, priceVars, splitVars,
                    payoutVars, syncVars, seriesVars, history_record,
                    history_totals, previousVars, pagingVars, storageVars >>

(* pages/20_Rewards_Tracker.py: the window before a window, of the same    *)
(* duration and ending where the window starts.                            *)
_previous_season(season_window) ==
    LET duration == season_window.ends - season_window.starts
        prev_end == season_window.starts
        prev_start == prev_end - duration
    IN [id |-> season_window.id - 1, ends |-> prev_end, starts |-> prev_start]

(* The page with "Previous" selected: the same events are aggregated for   *)
(* season_options["Previous"].                                             *)
AggregatePreviousSeason ==
    /\ pc = "done"
    /\ previous_season' = << _previous_season(season) >>
    /\ previous_rewards_list' =
          filter_rewards_for_season(rewards, _previous_season(season))
    /\ previous_tournaments_list' =
          filter_tournaments_for_season(tournaments, _previous_season(season))
    /\ pc' = "previous"
    /\ UNCHANGED << season, feed, rewards, tournaments, rewards_list,
                    tournaments_list, totals, prices, priceVars, splitVars,
                    payoutVars,
                    syncVars, seriesVars, history_record, history_totals,
                    totals_again, pagingVars, storageVars >>

Next ==
    FeedRow \/ FetchUnclaimedBalanceHistory \/ AggregateTotals
    \/ AggregateTotalsAgain \/ AggregatePreviousSeason

Spec == Init /\ [][Next]_vars

----------------------------------------------------------------------------
(* The price oracle: price payload -> fetch_prices, and the two extractors *)
(* applied to one raw quote.                                               *)

PayloadKeys == {"sps", "SPS", "dec", "eth"}

PayloadQuotes ==
    {Num(n) : n \in {-50, 0, 1, 2, 35, 100, 150}}
    \cup {NumStr(35), BadStr, NoneV,
          DictV(<< << "usd", Num(35) >> >>),
          DictV(<< << "high", Num(35) >> >>)}

DictKeys == {"usd", "USD", "price", "last", "close", "high"}

InnerValues == {Num(35), Num(40), Num(0), Num(-5), NumStr(45), BadStr, NoneV}

RECURSIVE DictItems(_)
DictItems(n) ==
    IF n = 0 THEN {<< >>}
    ELSE {Append(kvs, << k, v >>) :
             kvs \in {d \in DictItems(n - 1) : Len(d) = n - 1},
             k \in DictKeys, v \in InnerValues}
         \cup DictItems(n - 1)

DistinctKeys(kvs) ==
    \A i, j \in 1..Len(kvs) : kvs[i][1] = kvs[j][1] => i = j

QuoteValues ==
    {Num(n) : n \in {-50, 0, 35}} \cup {NumStr(35), BadStr, NoneV}
    \cup {DictV(kvs) : kvs \in {d \in DictItems(MaxDictKeys) : DistinctKeys(d)}}

InitPrices ==
    /\ season \in Seasons
    /\ feed = << >>
    /\ rewards = << >>
    /\ tournaments = << >>
    /\ prices = EmptyDict
    /\ rewards_list = << >>
    /\ tournaments_list = << >>
    /\ totals = NoTotals
    /\ pc = "prices"
    /\ price_payload = << >>
    /\ quote = NoneV
    /\ extracted = << >>
    /\ coerced = << >>
    /\ overall_usd = 0
    /\ scholar_pct = 0
    /\ scholar_share_usd = 0
    /\ owner_share_usd = 0
    /\ IdlePayout
    /\ IdleSync
    /\ IdleSeries
    /\ IdleRest

pipelineVars == << season, feed, rewards, tournaments, rewards_list,
                   tournaments_list, totals >>

(* The price endpoint quotes one more token. *)
PayloadQuote ==
    /\ pc = "prices"
    /\ Len(price_payload) < MaxQuotes
    /\ \E key \in PayloadKeys, value \in PayloadQuotes :
          /\ \A i \in 1..Len(price_payload) : price_payload[i][1] # key
          /\ price_payload' = Append(price_payload, << key, value >>)
    /\ UNCHANGED << restVars, pipelineVars, prices, pc, quote, extracted, coerced, splitVars,
                    payoutVars, syncVars, seriesVars >>

FetchPrices ==
    /\ pc = "prices"
    /\ prices' = fetch_prices(price_payload)
    /\ pc' = "priced"
    /\ UNCHANGED << restVars, pipelineVars, price_payload, quote, extracted, coerced, splitVars,
                    payoutVars, syncVars, seriesVars >>

ExtractQuote ==
    /\ pc = "prices"
    /\ price_payload = << >>
    /\ \E value \in QuoteValues :
          /\ quote' = value
          /\ extracted' = _extract_price(value)
          /\ coerced' = _coerce_price(value)
    /\ pc' = "extracted"
    /\ UNCHANGED << restVars, pipelineVars, prices, price_payload, splitVars,
                    payoutVars, syncVars, seriesVars >>

NextPrices == PayloadQuote \/ FetchPrices \/ ExtractQuote

SpecPrices == InitPrices /\ [][NextPrices]_vars

----------------------------------------------------------------------------
(* The payout split of the Rewards Tracker page.  scholar_share_usd and    *)
(* owner_share_usd are in units of 1/PCT of the unit of overall_usd.       *)

ScholarPcts == 0..100

OverallUsds == -3..MaxOverallUsd

InitSplit ==
    /\ season \in Seasons
    /\ feed = << >>
    /\ rewards = << >>
    /\ tournaments = << >>
    /\ prices = EmptyDict
    /\ rewards_list = << >>
    /\ tournaments_list = << >>
    /\ totals = NoTotals
    /\ pc = "page"
    /\ price_payload = << >>
    /\ quote = NoneV
    /\ extracted = << >>
    /\ coerced = << >>
    /\ overall_usd = 0
    /\ scholar_pct = 0
    /\ scholar_share_usd = 0
    /\ owner_share_usd = 0
    /\ IdlePayout
    /\ IdleSync
    /\ IdleSeries
    /\ IdleRest

(* st.number_input("Scholar share (%)", min_value=0, max_value=100) *)
ScholarShareInput ==
    /\ pc = "page"
    /\ \E pct \in ScholarPcts : scholar_pct' = pct
    /\ pc' = "input"
    /\ UNCHANGED << restVars, pipelineVars, prices, priceVars, overall_usd,
                    scholar_share_usd, owner_share_usd,
                    payoutVars, syncVars, seriesVars >>

(* One row of the scholar + owner share table. *)
ShareTableRow ==
    /\ pc = "input"
    /\ \E usd \in OverallUsds :
          /\ overall_usd' = usd
          /\ scholar_share_usd' = scholar_share_usd_of(usd, scholar_pct)
          /\ owner_share_usd' =
                owner_share_usd_of(usd, scholar_share_usd_of(usd, scholar_pct))
    /\ pc' = "row"
    /\ UNCHANGED << restVars, pipelineVars, prices, priceVars, scholar_pct,
                    payoutVars, syncVars, seriesVars >>

NextSplit == ScholarShareInput \/ ShareTableRow

SpecSplit == InitSplit /\ [][NextSplit]_vars

----------------------------------------------------------------------------
(* The scholar payout display: the totals of one account, then the share   *)
(* rendered in the currency chosen for it.                                 *)

PayoutPrizes ==
    {<< >>,
     << [token |-> "SPS", amount |-> 2] >>,
     << [token |-> "DEC", amount |-> 100] >>,
     << [token |-> "SPS", amount |-> 2], [token |-> "DEC", amount |-> 100] >>}

PayoutSnapshots ==
    {[k \in ks |-> CASE k = "sps" -> Num(35)
                     [] k = "SPS" -> Num(35)
                     [] k = "dec" -> Num(1)
                     [] k = "eth" -> Num(250)] :
        ks \in {{}, {"sps"}, {"SPS"}, {"dec"}, {"eth"}, {"sps", "dec"},
                {"sps", "eth"}, {"sps", "dec", "eth"}}}

PayoutPcts == {0, 50, 100}

PayoutCurrencies == {"USD", "SPS", "ETH", "DEC", "BTC", "eth"}

ExplicitSps == {<< >>, << 0 >>, << 200 >>}

InitPayout ==
    /\ season \in Seasons
    /\ feed = << >>
    /\ rewards = << >>
    /\ tournaments = << >>
    /\ prices = EmptyDict
    /\ rewards_list = << >>
    /\ tournaments_list = << >>
    /\ totals = NoTotals
    /\ pc = "account"
    /\ price_payload = << >>
    /\ quote = NoneV
    /\ extracted = << >>
    /\ coerced = << >>
    /\ overall_usd = 0
    /\ scholar_pct = 0
    /\ scholar_share_usd = 0
    /\ owner_share_usd = 0
    /\ IdlePayout
    /\ IdleSync
    /\ IdleSeries
    /\ IdleRest

(* The totals of one account under one price snapshot, and its split. *)
AccountTotals ==
    /\ pc = "account"
    /\ \E prize \in PayoutPrizes, token_to_usd \in PayoutSnapshots,
          pct \in PayoutPcts :
          LET ts == << [start_date |-> << >>, entry_fee |-> << >>,
                        rewards |-> prize] >>
              user_totals == aggregate_totals(season, << >>, ts, token_to_usd)
          IN /\ tournaments' = ts
             /\ tournaments_list' = filter_tournaments_for_season(ts, season)
             /\ prices' = token_to_usd
             /\ totals' = user_totals
             /\ scholar_pct' = pct
             /\ overall_usd' = user_totals.overall.usd
             /\ scholar_share_usd' =
                   scholar_share_usd_of(user_totals.overall.usd, pct)
             /\ owner_share_usd' =
                   owner_share_usd_of(user_totals.overall.usd,
                       scholar_share_usd_of(user_totals.overall.usd, pct))
    /\ pc' = "totals"
    /\ UNCHANGED << restVars, season, feed, rewards, rewards_list, priceVars,
                    payoutVars, syncVars, seriesVars >>

FormatScholarPayout ==
    /\ pc = "totals"
    /\ \E cur \in PayoutCurrencies, sps \in ExplicitSps :
          /\ currency' = cur
          /\ explicit_sps' = sps
          /\ payout_display' =
                _format_scholar_payout(cur, totals, scholar_pct, prices, sps)
    /\ pc' = "rendered"
    /\ UNCHANGED << restVars, pipelineVars, prices, priceVars, splitVars,
                    syncVars, seriesVars >>

NextPayout == AccountTotals \/ FormatScholarPayout

SpecPayout == InitPayout /\ [][NextPayout]_vars

----------------------------------------------------------------------------
(* scripts/season_sync.py: the command line is parsed, then every          *)
(* username is synced and its season totals upserted with the scholar      *)
(* percentage of the command line.                                         *)

(* --scholar-pct has type=float: any number is taken, a word is refused. *)
CliArgs == {NumStr(n) : n \in (0 - 50)..MaxCliPct} \cup {BadStr}

CliUsernames == {<< >>, << "alice" >>, << "alice", "bob" >>}

(* upsert_season_totals: one row per (season_id, username). *)
upsert_season_totals(table, s, username, totals_, scholar_pct_) ==
    LET row == [season_id |-> s.id, username |-> username,
                ranked_tokens |-> totals_.ranked.token_amounts,
                brawl_tokens |-> totals_.brawl.token_amounts,
                tournament_tokens |-> totals_.tournament.token_amounts,
                entry_fees_tokens |-> totals_.entry_fees.token_amounts,
                ranked_usd |-> totals_.ranked.usd,
                brawl_usd |-> totals_.brawl.usd,
                tournament_usd |-> totals_.tournament.usd,
                entry_fees_usd |-> totals_.entry_fees.usd,
                overall_usd |-> totals_.overall.usd,
                scholar_pct |-> scholar_pct_]
    IN IF \E i \in 1..Len(table) :
             table[i].season_id = s.id /\ table[i].username = username
       THEN [i \in 1..Len(table) |->
                IF table[i].season_id = s.id /\ table[i].username = username
                THEN row ELSE table[i]]
       ELSE Append(table, row)

InitSync ==
    /\ season \in Seasons
    /\ feed = << >>
    /\ rewards = << >>
    /\ tournaments = << >>
    /\ prices = EmptyDict
    /\ rewards_list = << >>
    /\ tournaments_list = << >>
    /\ totals = NoTotals
    /\ pc = "argv"
    /\ price_payload = << >>
    /\ quote = NoneV
    /\ extracted = << >>
    /\ coerced = << >>
    /\ overall_usd = 0
    /\ scholar_pct = 0
    /\ scholar_share_usd = 0
    /\ owner_share_usd = 0
    /\ IdlePayout
    /\ IdleSync
    /\ IdleSeries
    /\ IdleRest

(* main: parser.parse_args(), then the usernames. *)
ParseArgs ==
    /\ pc = "argv"
    /\ \E arg \in CliArgs, names \in CliUsernames :
          LET parsed == _coerce_float(arg)
          IN IF parsed = << >>
             THEN /\ pc' = "exit"
                  /\ UNCHANGED syncVars
             ELSE /\ args_scholar_pct' = parsed
                  /\ usernames' = names
                  /\ season_table' = season_table
                  /\ pc' = IF names = << >> THEN "exit" ELSE "sync"
    /\ UNCHANGED << restVars, pipelineVars, prices, priceVars, splitVars,
                    payoutVars, seriesVars >>

(* _sync_for_season: one username; the totals are aggregated and upserted, *)
(* or an exception of the fetches is logged and the username skipped.      *)
SyncUsername ==
    /\ pc = "sync"
    /\ usernames # << >>
    /\ \E ts \in {<< >>, << PlainTournament >>,
                    << [PlainTournament EXCEPT
                           !.entry_fee = << [token |-> "SPS", amount |-> 1] >>,
                           !.rewards = << >>] >>},
          failed \in BOOLEAN :
          LET token_to_usd == [k \in {"sps"} |-> Num(35)]
              user_totals == aggregate_totals(season, << >>, ts, token_to_usd)
          IN IF failed \/ user_totals.raised # ""
             THEN UNCHANGED << tournaments, tournaments_list, prices, totals,
                               season_table >>
             ELSE /\ tournaments' = ts
                  /\ tournaments_list' = filter_tournaments_for_season(ts, season)
                  /\ prices' = token_to_usd
                  /\ totals' = user_totals
                  /\ season_table' =
                        upsert_season_totals(season_table, season,
                            Head(usernames), user_totals, args_scholar_pct[1])
    /\ usernames' = Tail(usernames)
    /\ pc' = IF Tail(usernames) = << >> THEN "synced" ELSE "sync"
    /\ UNCHANGED << restVars, season, feed, rewards, rewards_list, priceVars, splitVars,
                    payoutVars, args_scholar_pct, seriesVars >>

(* features/scholar/service.py: a stored season record is turned back     *)
(* into AggregatedTotals.  _parse_token_amounts upper-cases the keys of    *)
(* the stored token map (the stored keys are upper-case already, so no two *)
(* keys collide), _safe_float of a stored number is the number, and        *)
(* _merge_token_amounts adds the amounts per upper-cased token.            *)
_aggregated_totals_from_record(record) ==
    LET _parse_token_amounts(payload) ==
            [key \in {StrUpper(tk) : tk \in DOMAIN payload} |->
                payload[CHOOSE tk \in DOMAIN payload : StrUpper(tk) = key]]
        ranked == [token_amounts |-> _parse_token_amounts(record.ranked_tokens),
                   usd |-> record.ranked_usd]
        brawl == [token_amounts |-> _parse_token_amounts(record.brawl_tokens),
                  usd |-> record.brawl_usd]
        tournament == [token_amounts |->
                           _parse_token_amounts(record.tournament_tokens),
                       usd |-> record.tournament_usd]
        entry_fees == [token_amounts |->
                           _parse_token_amounts(record.entry_fees_tokens),
                       usd |-> record.entry_fees_usd]
        parts == << ranked.token_amounts, brawl.token_amounts,
                    tournament.token_amounts >>
        merged_keys == UNION {{StrUpper(tk) : tk \in DOMAIN parts[i]} :
                                 i \in 1..Len(parts)}
        overall_tokens ==
            [key \in merged_keys |->
                SumOver(1..Len(parts),
                        [i \in 1..Len(parts) |->
                            SumOver({tk \in DOMAIN parts[i] : StrUpper(tk) = key},
                                    parts[i])])]
        overall_usd_ == IF record.overall_usd # 0
                       THEN record.overall_usd
                       ELSE ranked.usd + brawl.usd + tournament.usd
                            + entry_fees.usd
    IN [raised |-> "",
        ranked |-> ranked,
        brawl |-> brawl,
        tournament |-> tournament,
        entry_fees |-> entry_fees,
        overall |-> [token_amounts |-> overall_tokens, usd |-> overall_usd_]]

(* The history table of the rewards page: one stored record of the season  *)
(* table is turned back into totals.                                       *)
LoadHistoryRecord ==
    /\ pc = "synced"
    /\ \E i \in 1..Len(season_table) :
          /\ history_record' = << season_table[i] >>
          /\ history_totals' = _aggregated_totals_from_record(season_table[i])
    /\ pc' = "history"
    /\ UNCHANGED << pipelineVars, prices, priceVars, splitVars, payoutVars,
                    syncVars, seriesVars, totals_again, previousVars,
                    pagingVars, storageVars >>

NextSync == ParseArgs \/ SyncUsername \/ LoadHistoryRecord

SpecSync == InitSync /\ [][NextSync]_vars

----------------------------------------------------------------------------
(* The series page scoring live results: the registry is read, the scheme  *)
(* resolved, and the entries of a live leaderboard are scored.             *)

RuleChoices ==
    {Rule(lo, hi, v[1], v[2]) :
        lo \in {<< >>, << 1 >>, << 2 >>},
        hi \in {<< >>, << 2 >>},
        v \in {<< << 0 >>, << 0 >> >>,
               << << 5 >>, << 25 >> >>,
               << << >>, << >> >>}}

RuleTables == UNION {[1..n -> RuleChoices] : n \in 0..MaxRules}

SchemeHeads ==
    {[mode |-> "fixed", base_points |-> << 2 >>, dnp_points |-> << 1 >>],
     [mode |-> "multiplier", base_points |-> << 2 >>, dnp_points |-> << 1 >>],
     [mode |-> "Multiplier", base_points |-> << 1 >>, dnp_points |-> << 0 >>],
     [mode |-> "", base_points |-> << >>, dnp_points |-> << >>]}

(* What fetch_point_schemes() can return for a slug: nothing (the registry *)
(* is unavailable or empty), definitions of other slugs only, or a         *)
(* definition of the slug.                                                 *)
Registries(slug) ==
    {<< >>,
     << [DEFAULT_POINT_SCHEMES["performance"] EXCEPT !.slug = "other"] >>}
    \cup (IF slug # "balanced" THEN {}
          ELSE {<< [slug |-> slug, mode |-> h.mode,
                    base_points |-> h.base_points,
                    dnp_points |-> h.dnp_points, rules |-> rs] >> :
                   h \in SchemeHeads, rs \in RuleTables})

Slugs == {"balanced", "performance", "participation", "custom"}

Finishes == {<< >>, << 0 >>, << 1 >>, << 2 >>, << 3 >>}

LiveLeaderboards ==
    {<< >>} \cup {<< [player |-> "alice", finish |-> f] >> : f \in Finishes}
    \cup {<< [player |-> "alice", finish |-> << 1 >>],
             [player |-> "bob", finish |-> << 2 >>],
             [player |-> "carol", finish |-> << >>] >>}
    \cup {[f \in 1..MaxPlacings |-> [player |-> "entrant", finish |-> << f >>]]}

InitPoints ==
    /\ season \in Seasons
    /\ feed = << >>
    /\ rewards = << >>
    /\ tournaments = << >>
    /\ prices = EmptyDict
    /\ rewards_list = << >>
    /\ tournaments_list = << >>
    /\ totals = NoTotals
    /\ pc = "scheme"
    /\ price_payload = << >>
    /\ quote = NoneV
    /\ extracted = << >>
    /\ coerced = << >>
    /\ overall_usd = 0
    /\ scholar_pct = 0
    /\ scholar_share_usd = 0
    /\ owner_share_usd = 0
    /\ IdlePayout
    /\ IdleSync
    /\ IdleSeries
    /\ IdleRest

(* schemes = fetch_point_schemes(); scheme_def = _resolve_scheme(...) *)
ResolveScheme ==
    /\ pc = "scheme"
    /\ \E slug \in Slugs : \E registry \in Registries(slug) :
          /\ scheme' = slug
          /\ schemes' = registry
          /\ scheme_def' = _resolve_scheme(registry, slug)
    /\ pc' = "resolved"
    /\ UNCHANGED << restVars, pipelineVars, prices, priceVars, splitVars, payoutVars,
                    syncVars, leaderboard, result_rows, totals_map, cutoff,
                    total_rows >>

FetchResultsFromApi ==
    /\ pc = "resolved"
    /\ \E entries \in LiveLeaderboards :
          /\ leaderboard' = entries
          /\ result_rows' = _fetch_results_from_api(entries, scheme_def)
    /\ pc' = "scored"
    /\ UNCHANGED << restVars, pipelineVars, prices, priceVars, splitVars, payoutVars,
                    syncVars, schemes, scheme, scheme_def, totals_map, cutoff,
                    total_rows >>

NextPoints == ResolveScheme \/ FetchResultsFromApi

SpecPoints == InitPoints /\ [][NextPoints]_vars

----------------------------------------------------------------------------
(* The series leaderboard page: the stored result rows of the series are   *)
(* read, folded per player, sorted and cut off.                            *)

Result(player_, points_, finish_) ==
    [player |-> player_, points |-> points_, finish |-> finish_]

ResultRows ==
    {Result("alice", << 250 >>, << 1 >>),
     Result("alice", << 80 >>, << 5 >>),
     Result("alice", << >>, << 3 >>),
     Result("alice", << 250 >>, << >>),
     Result(" alice", << 250 >>, << 4 >>),
     Result("", << 250 >>, << 1 >>),
     Result(" ", << 80 >>, << 2 >>),
     Result("bob", << 250 >>, << 1 >>),
     Result("bob", << 80 >>, << >>),
     Result("carol", << 120 >>, << 2 >>)}

(* The example of four players with 40, 33, 20 and 10 points. *)
ExampleRows ==
    << Result("alice", << 400 >>, << 1 >>), Result("bob", << 330 >>, << 2 >>),
       Result("carol", << 200 >>, << 3 >>), Result("dave", << 100 >>, << 4 >>) >>

ResultRowLists ==
    UNION {[1..n -> ResultRows] : n \in 0..MaxResultRows} \cup {ExampleRows}

Cutoffs == {<< >>, << 0 - 10 >>, << 0 >>, << 250 >>, << 251 >>, << 1000 >>}

InitSeries ==
    /\ season \in Seasons
    /\ feed = << >>
    /\ rewards = << >>
    /\ tournaments = << >>
    /\ prices = EmptyDict
    /\ rewards_list = << >>
    /\ tournaments_list = << >>
    /\ totals = NoTotals
    /\ pc = "config"
    /\ price_payload = << >>
    /\ quote = NoneV
    /\ extracted = << >>
    /\ coerced = << >>
    /\ overall_usd = 0
    /\ scholar_pct = 0
    /\ scholar_share_usd = 0
    /\ owner_share_usd = 0
    /\ IdlePayout
    /\ IdleSync
    /\ IdleSeries
    /\ IdleRest

(* cutoff = _as_float(selected_config.get("qualification_cutoff")) and     *)
(* result_rows = fetch_tournament_results_supabase(...)                    *)
FetchTournamentResults ==
    /\ pc = "config"
    /\ \E c \in Cutoffs, rows \in ResultRowLists :
          /\ cutoff' = c
          /\ result_rows' = rows
    /\ pc' = "results"
    /\ UNCHANGED << restVars, pipelineVars, prices, priceVars, splitVars, payoutVars,
                    syncVars, schemes, scheme, scheme_def, leaderboard,
                    totals_map, total_rows >>

(* The rest of render_page: nothing is shown without result rows. *)
RenderLeaderboard ==
    /\ pc = "results"
    /\ IF result_rows = << >>
       THEN UNCHANGED << totals_map, total_rows >>
       ELSE /\ totals_map' = fold_result_rows(result_rows, << >>)
            /\ total_rows' =
                  series_leaderboard(fold_result_rows(result_rows, << >>), cutoff)
    /\ pc' = "leaderboard"
    /\ UNCHANGED << restVars, pipelineVars, prices, priceVars, splitVars, payoutVars,
                    syncVars, schemes, scheme, scheme_def, leaderboard,
                    result_rows, cutoff >>

NextSeries == FetchTournamentResults \/ RenderLeaderboard

SpecSeries == InitSeries /\ [][NextSeries]_vars

----------------------------------------------------------------------------
(* scholar_helper/services/api.py: the reward feed of one player read page *)
(* by page for a season.  `feed` is the whole feed the server holds,       *)
(* newest first; a row is known by its place in it.                        *)

Histories ==
    LET HistoryRows == {[PlainRow EXCEPT !.created_date = d, !.amount = a] :
                           d \in Times, a \in {Num(2), Num(0)}}
    IN {h \in UNION {[1..n -> HistoryRows] : n \in 0..MaxHistory} :
           \A i, j \in 1..Len(h) :
               i <= j => h[i].created_date >= h[j].created_date}

(* resp.json() of ...?offset={offset}&limit={page_limit} *)
page_at(history, offset_, page_limit_) ==
    SubSeq(history, offset_ + 1,
           IF offset_ + page_limit_ <= Len(history)
           THEN offset_ + page_limit_ ELSE Len(history))

(* The entries one page appends: id is the place of the row in the feed. *)
entries_of_page(payload, offset_, s) ==
    LET kept == {i \in 1..Len(payload) :
                    /\ ~SkipAdjustment(_coerce_float(PyOr(payload[i].amount, Num(0))))
                    /\ ~(payload[i].created_date < s.starts
                         \/ payload[i].created_date > s.ends)}
        place(n) == CHOOSE i \in kept : Cardinality({j \in kept : j <= i}) = n
    IN [n \in 1..Cardinality(kept) |->
           [id |-> offset_ + place(n),
            token |-> RewardEntry(payload[place(n)]).token,
            amount |-> RewardEntry(payload[place(n)]).amount,
            type |-> RewardEntry(payload[place(n)]).type,
            created_date |-> RewardEntry(payload[place(n)]).created_date]]

(* oldest_in_page after the loop over a page that is not empty. *)
oldest_in_page_of(payload) ==
    LET dates == {payload[i].created_date : i \in 1..Len(payload)}
    IN CHOOSE d \in dates : \A e \in dates : d <= e

(* Mutant of ReachedBeforeSeason: a page reaching the start of the season  *)
(* stops the loop too.                                                     *)
ReachedBeforeSeason_at_start(oldest_in_page, s) == oldest_in_page <= s.starts

(* if oldest_in_page and oldest_in_page < season.starts: break *)
ReachedBeforeSeason(oldest_in_page, s) == oldest_in_page < s.starts

(* entries.sort(key=lambda r: r.created_date, reverse=True): stable. *)
RECURSIVE sort_newest_first(_, _)
sort_newest_first(unsorted, sorted) ==
    IF unsorted = << >> THEN sorted
    ELSE LET e == Head(unsorted)
             before == {i \in 0..Len(sorted) :
                          \A j \in 1..i : sorted[j].created_date >= e.created_date}
             k == CHOOSE i \in before : \A j \in before : j <= i
         IN sort_newest_first(Tail(unsorted),
                SubSeq(sorted, 1, k) \o << e >> \o SubSeq(sorted, k + 1, Len(sorted)))

InitHistory ==
    /\ season \in Seasons
    /\ feed = << >>
    /\ rewards = << >>
    /\ tournaments = << >>
    /\ prices = EmptyDict
    /\ rewards_list = << >>
    /\ tournaments_list = << >>
    /\ totals = NoTotals
    /\ pc = "history"
    /\ price_payload = << >>
    /\ quote = NoneV
    /\ extracted = << >>
    /\ coerced = << >>
    /\ overall_usd = 0
    /\ scholar_pct = 0
    /\ scholar_share_usd = 0
    /\ owner_share_usd = 0
    /\ IdlePayout
    /\ IdleSync
    /\ IdleSeries
    /\ history_record = << >>
    /\ history_totals = NoTotals
    /\ totals_again = NoTotals
    /\ previous_season = << >>
    /\ previous_rewards_list = << >>
    /\ previous_tournaments_list = << >>
    /\ page_limit = 0
    /\ offset = 0
    /\ season_entries = << >>
    /\ creds = TRUE
    /\ last_error = << >>
    /\ organizers = << >>
    /\ ingested = << >>
    /\ failures = << >>
    /\ ok = << >>
    /\ sessions = << >>

(* The call: the feed the server holds for the player, and a page size    *)
(* that the feed fills once or more than once.                            *)
FetchHistoryForSeason ==
    /\ pc = "history"
    /\ feed' \in Histories
    /\ page_limit' \in {1, 2}
    /\ offset' = 0
    /\ season_entries' = << >>
    /\ pc' = "paging"
    /\ UNCHANGED << season, rewards, tournaments, prices, rewards_list,
                    tournaments_list, totals, priceVars, splitVars,
                    payoutVars, syncVars, seriesVars, history_record,
                    history_totals, totals_again, previousVars, storageVars >>

(* One turn of "while True": a page is requested and read; the loop is     *)
(* left with break, after which entries are sorted and returned, or the    *)
(* offset advances.                                                        *)
FetchHistoryPage ==
    /\ pc = "paging"
    /\ LET payload == page_at(feed, offset, page_limit)
           read == season_entries \o entries_of_page(payload, offset, season)
       IN IF payload = << >>
          THEN /\ rewards' = sort_newest_first(season_entries, << >>)
               /\ pc' = "paged"
               /\ UNCHANGED << offset, season_entries >>
          ELSE /\ season_entries' = read
               /\ IF \/ ReachedBeforeSeason(oldest_in_page_of(payload), season)
                     \/ Len(payload) < page_limit
                  THEN /\ rewards' = sort_newest_first(read, << >>)
                       /\ pc' = "paged"
                       /\ UNCHANGED offset
                  ELSE /\ offset' = offset + page_limit
                       /\ UNCHANGED << rewards, pc >>
    /\ UNCHANGED << season, feed, tournaments, prices, rewards_list,
                    tournaments_list, totals, priceVars, splitVars,
                    payoutVars, syncVars, seriesVars, history_record,
                    history_totals, totals_again, previousVars, page_limit,
                    storageVars >>

NextHistory == FetchHistoryForSeason \/ FetchHistoryPage

(* The loop body runs to its end each time it is entered. *)
SpecHistory == InitHistory /\ [][NextHistory]_vars /\ WF_vars(NextHistory)

----------------------------------------------------------------------------
(* scholar_helper/services/storage.py: the module keeps the last error of  *)
(* any storage operation in one global, _last_error; << >> is None.        *)

(* get_supabase_client: what the credential check leaves in _last_error. *)
get_supabase_client(creds_) ==
    IF creds_ THEN << >> ELSE << "Missing SUPABASE_URL or key" >>

(* _postgrest_upsert: what the response leaves in _last_error; the request *)
(* itself raising is the caller's matter.                                  *)
_postgrest_upsert(slot, response) ==
    IF response = "status" THEN << "Supabase upsert failed" >> ELSE slot

(* _ingest_organizer_tournaments for an organizer with one recent          *)
(* tournament: the list and the detail are fetched (None when the GET      *)
(* failed), then the event rows and the result rows are upserted; a        *)
(* response is "ok", "status" (status_code >= 300) or "raise" (the request *)
(* raised).                                                                *)
_ingest_organizer_tournaments(list_ok, detail_ok, events_resp, results_resp) ==
    IF ~list_ok
    THEN [raised |-> TRUE, fetched |-> FALSE, events |-> FALSE, results |-> FALSE]
    ELSE IF ~detail_ok
    THEN [raised |-> FALSE, fetched |-> FALSE, events |-> FALSE, results |-> FALSE]
    ELSE IF events_resp = "raise"
    THEN [raised |-> TRUE, fetched |-> TRUE, events |-> FALSE, results |-> FALSE]
    ELSE [raised |-> results_resp = "raise", fetched |-> TRUE,
          events |-> events_resp = "ok", results |-> results_resp = "ok"]

InitIngest ==
    /\ season \in Seasons
    /\ feed = << >>
    /\ rewards = << >>
    /\ tournaments = << >>
    /\ prices = EmptyDict
    /\ rewards_list = << >>
    /\ tournaments_list = << >>
    /\ totals = NoTotals
    /\ pc = "refresh"
    /\ price_payload = << >>
    /\ quote = NoneV
    /\ extracted = << >>
    /\ coerced = << >>
    /\ overall_usd = 0
    /\ scholar_pct = 0
    /\ scholar_share_usd = 0
    /\ owner_share_usd = 0
    /\ IdlePayout
    /\ IdleSync
    /\ IdleSeries
    /\ history_record = << >>
    /\ history_totals = NoTotals
    /\ totals_again = NoTotals
    /\ previous_season = << >>
    /\ previous_rewards_list = << >>
    /\ previous_tournaments_list = << >>
    /\ page_limit = 0
    /\ offset = 0
    /\ season_entries = << >>
    /\ creds \in BOOLEAN
    /\ last_error \in {<< >>, << "Supabase fetch failed" >>}
    /\ organizers = << >>
    /\ ingested = << >>
    /\ failures = << >>
    /\ ok = << >>
    /\ sessions = << >>

(* refresh_tournament_ingest_all up to its loop: the credential check, the *)
(* active organizers of the ingest table (none when the fetch failed) and  *)
(* the organizers of the secrets in their place.                           *)
RefreshTournamentIngestAll ==
    /\ pc = "refresh"
    /\ \E fetch_ok \in BOOLEAN,
          active \in {<< >>} \cup {[i \in 1..n |-> IF i = 1 THEN "lorkus" ELSE "bob"] :
                                     n \in 1..MaxOrganizers},
          fallback \in {<< >>, << "carol" >>} :
          LET fetched == IF fetch_ok THEN active ELSE << >>
              found == IF fetched # << >> THEN fetched ELSE fallback
              after_fetch == IF fetch_ok THEN get_supabase_client(creds)
                             ELSE << "Supabase fetch failed" >>
          IN IF ~creds
             THEN /\ last_error' = get_supabase_client(creds)
                  /\ ok' = << FALSE >>
                  /\ pc' = "refreshed"
                  /\ UNCHANGED organizers
             ELSE IF found = << >>
             THEN /\ last_error' = << "No active organizers found for ingest." >>
                  /\ ok' = << FALSE >>
                  /\ pc' = "refreshed"
                  /\ UNCHANGED organizers
             ELSE /\ last_error' = after_fetch
                  /\ organizers' = found
                  /\ pc' = "ingest"
                  /\ UNCHANGED ok
    /\ UNCHANGED << pipelineVars, prices, priceVars, splitVars, payoutVars,
                    syncVars, seriesVars, history_record, history_totals,
                    totals_again, previousVars, pagingVars,
                    creds, ingested, failures, sessions >>

(* One turn of "for organizer in organizers", and after the last one the   *)
(* return.  The ingest state rows are upserted before and after the        *)
(* ingest; their failures are logged or left in _last_error.               *)
IngestOrganizer ==
    /\ pc = "ingest"
    /\ \E list_ok \in BOOLEAN, detail_ok \in BOOLEAN,
          events_resp \in {"ok", "status", "raise"},
          results_resp \in {"ok", "status", "raise"},
          state_resp \in {"ok", "status"} :
          LET organizer == organizers[Len(ingested) + 1]
              outcome == _ingest_organizer_tournaments(list_ok, detail_ok,
                                                       events_resp, results_resp)
              now_failed == IF outcome.raised THEN Append(failures, organizer)
                            ELSE failures
              after_state == _postgrest_upsert(get_supabase_client(creds),
                                               state_resp)
          IN /\ ingested' = Append(ingested,
                   [organizer |-> organizer, raised |-> outcome.raised,
                    fetched |-> outcome.fetched, events |-> outcome.events,
                    results |-> outcome.results])
             /\ failures' = now_failed
             /\ IF Len(ingested) + 1 < Len(organizers)
                THEN /\ last_error' = after_state
                     /\ UNCHANGED << ok, pc >>
                ELSE IF now_failed # << >>
                THEN /\ last_error' = << "Ingest failed for: " >>
                     /\ ok' = << FALSE >>
                     /\ pc' = "refreshed"
                ELSE /\ last_error' = << >>
                     /\ ok' = << TRUE >>
                     /\ pc' = "refreshed"
    /\ UNCHANGED << pipelineVars, prices, priceVars, splitVars, payoutVars,
                    syncVars, seriesVars, history_record, history_totals,
                    totals_again, previousVars, pagingVars,
                    creds, organizers, sessions >>

NextIngest == RefreshTournamentIngestAll \/ IngestOrganizer

SpecIngest == InitIngest /\ [][NextIngest]_vars

----------------------------------------------------------------------------
(* Two sessions of the application share the storage module and with it    *)
(* _last_error.  Each loads the tournaments of a series: _supabase_fetch   *)
(* checks the credentials, sends the request, and on a failure writes its  *)
(* message; the page then reads get_last_supabase_error() when it got no   *)
(* tournaments.  The steps of the two sessions interleave.                 *)

Sessions == {1, 2}

FetchFailed(session) ==
    IF session = 1 THEN "Supabase fetch failed: 1" ELSE "Supabase fetch failed: 2"

(* _supabase_fetch after the credential check: what the outcome of the     *)
(* request ("rows", "empty" or "failed") leaves in _last_error.            *)
_supabase_fetch_silent(slot, outcome, session) == slot

_supabase_fetch(slot, outcome, session) ==
    IF outcome = "failed" THEN << FetchFailed(session) >> ELSE slot

InitRace ==
    /\ season \in Seasons
    /\ feed = << >>
    /\ rewards = << >>
    /\ tournaments = << >>
    /\ prices = EmptyDict
    /\ rewards_list = << >>
    /\ tournaments_list = << >>
    /\ totals = NoTotals
    /\ pc = "race"
    /\ price_payload = << >>
    /\ quote = NoneV
    /\ extracted = << >>
    /\ coerced = << >>
    /\ overall_usd = 0
    /\ scholar_pct = 0
    /\ scholar_share_usd = 0
    /\ owner_share_usd = 0
    /\ IdlePayout
    /\ IdleSync
    /\ IdleSeries
    /\ history_record = << >>
    /\ history_totals = NoTotals
    /\ totals_again = NoTotals
    /\ previous_season = << >>
    /\ previous_rewards_list = << >>
    /\ previous_tournaments_list = << >>
    /\ page_limit = 0
    /\ offset = 0
    /\ season_entries = << >>
    /\ creds = TRUE
    /\ last_error \in {<< >>, << "Supabase upsert failed" >>}
    /\ organizers = << >>
    /\ ingested = << >>
    /\ failures = << >>
    /\ ok = << >>
    /\ sessions = [session \in Sessions |->
                      [at |-> "idle", outcome |-> "", seen |-> << >>]]

(* fetch_tournament_events_supabase up to the request: get_supabase_client *)
(* clears _last_error.                                                     *)
FetchTournamentEventsSupabase ==
    /\ pc = "race"
    /\ \E session \in Sessions :
          /\ sessions[session].at = "idle"
          /\ last_error' = get_supabase_client(creds)
          /\ sessions' = [sessions EXCEPT ![session].at = "request"]
    /\ UNCHANGED << pipelineVars, prices, priceVars, splitVars, payoutVars,
                    syncVars, seriesVars, history_record, history_totals,
                    totals_again, previousVars, pagingVars,
                    pc, creds, organizers, ingested, failures, ok >>

(* The request is answered, or raises.                                     *)
SupabaseFetchReturns ==
    /\ pc = "race"
    /\ \E session \in Sessions, outcome \in {"rows", "empty", "failed"} :
          /\ sessions[session].at = "request"
          /\ last_error' = _supabase_fetch(last_error, outcome, session)
          /\ sessions' = [sessions EXCEPT ![session].at = "fetched",
                                          ![session].outcome = outcome]
    /\ UNCHANGED << pipelineVars, prices, priceVars, splitVars, payoutVars,
                    syncVars, seriesVars, history_record, history_totals,
                    totals_again, previousVars, pagingVars,
                    pc, creds, organizers, ingested, failures, ok >>

(* supabase_error = get_last_supabase_error() if not tournaments else None *)
RenderPageReadsError ==
    /\ pc = "race"
    /\ \E session \in Sessions :
          /\ sessions[session].at = "fetched"
          /\ sessions' = [sessions EXCEPT
                 ![session].at = "shown",
                 ![session].seen = IF sessions[session].outcome = "rows"
                                   THEN << >> ELSE last_error]
    /\ UNCHANGED << pipelineVars, prices, priceVars, splitVars, payoutVars,
                    syncVars, seriesVars, history_record, history_totals,
                    totals_again, previousVars, pagingVars,
                    pc, creds, last_error, organizers, ingested,
                    failures, ok >>

NextRace ==
    FetchTournamentEventsSupabase \/ SupabaseFetchReturns \/ RenderPageReadsError

SpecRace == InitRace /\ [][NextRace]_vars

----------------------------------------------------------------------------
(* Vocabulary of the properties *)

Get(d, k) == IF k \in DOMAIN d THEN d[k] ELSE 0

TokenKeys == {"SPS", "DEC", "VOUCHER", "NONE"}

InWindow(d) == season.starts <= d /\ d <= season.ends

Returned == pc = "done" /\ totals.raised = ""

RankedSpellings == {"modern", "Wild", "SURVIVAL"}
BrawlSpellings == {"Brawl"}

(* The i-th smallest element of a set of indices. *)
NthOf(S, j) == CHOOSE i \in S : Cardinality({k \in S : k <= i}) = j

(* sq is xs restricted to the indices in S, in the order of xs. *)
IsRestriction(sq, xs, S) ==
    /\ Len(sq) = Cardinality(S)
    /\ \A j \in 1..Len(sq) : sq[j] = xs[NthOf(S, j)]

(* Amount of token key T in the entries i of xs that satisfy keep. *)
SumAmounts(xs, keep, T) ==
    LET S == {i \in 1..Len(xs) : keep[i] /\ StrUpper(xs[i].token) = T}
    IN SumOver(S, [i \in S |-> xs[i].amount])

----------------------------------------------------------------------------
(* C1: in every result of aggregate_totals, for every token T,             *)
(* overall.token_amounts[T] is ranked[T] + brawl[T] + tournament[T] (a     *)
(* missing key counting 0), overall has no other key, and so a token that  *)
(* occurs in entry_fees alone is absent from overall.                      *)
C1_OverallIsSumOfCategories ==
    Returned =>
        /\ DOMAIN totals.overall.token_amounts =
              DOMAIN totals.ranked.token_amounts
              \cup DOMAIN totals.brawl.token_amounts
              \cup DOMAIN totals.tournament.token_amounts
        /\ \A T \in TokenKeys :
              Get(totals.overall.token_amounts, T) =
                  Get(totals.ranked.token_amounts, T)
                  + Get(totals.brawl.token_amounts, T)
                  + Get(totals.tournament.token_amounts, T)

C1_Witness ==
    /\ Returned
    /\ totals.ranked.token_amounts # EmptyDict
    /\ totals.brawl.token_amounts # EmptyDict
    /\ totals.tournament.token_amounts # EmptyDict
    /\ "VOUCHER" \in DOMAIN totals.entry_fees.token_amounts
    /\ "VOUCHER" \notin DOMAIN totals.overall.token_amounts
    /\ totals.overall.token_amounts["SPS"] = 6

----------------------------------------------------------------------------
(* C2: a feed event whose amount is zero or negative contributes nothing:  *)
(* for every token the ranked and the brawl total are the sum of the       *)
(* positive amounts of the in-window feed events of that category, a token *)
(* has a key only when that sum is positive, and overall is those two sums *)
(* plus the tournament prizes.                                             *)
FeedAmount(raw) ==
    IF raw.amount.t \in {"num", "numstr"} /\ raw.amount.n > 0
    THEN raw.amount.n ELSE 0

FeedSum(spellings, T) ==
    LET S == {i \in 1..Len(feed) :
                 /\ feed[i].type \in spellings
                 /\ InWindow(feed[i].created_date)
                 /\ StrUpper(PyStr(feed[i].token)) = T}
    IN SumOver(S, [i \in S |-> FeedAmount(feed[i])])

----------------------------------------------------------------------------
(* C3: filter_rewards_for_season keeps a reward exactly when               *)
(* season.starts <= created_date <= season.ends (both bounds included, one *)
(* tick outside either bound excluded), and its output is the input        *)
(* restricted to the kept rewards, in input order.                         *)
C3_RewardFilterInclusive ==
    pc = "done" =>
        IsRestriction(rewards_list, rewards,
                      {i \in 1..Len(rewards) : InWindow(rewards[i].created_date)})

C3_Witness ==
    /\ pc = "done"
    /\ Len(rewards) = 2
    /\ rewards[1].created_date = season.ends + 1
    /\ rewards[2].created_date = season.ends
    /\ rewards_list = << rewards[2] >>

----------------------------------------------------------------------------
(* C4: filter_tournaments_for_season keeps every tournament without a      *)
(* start_date and keeps a dated one exactly when its start_date is in the  *)
(* season window; the prizes and the entry fee of an undated tournament    *)
(* are therefore always counted by aggregate_totals.                       *)
KeptTournaments ==
    {i \in 1..Len(tournaments) :
        \/ tournaments[i].start_date = << >>
        \/ InWindow(tournaments[i].start_date[1])}

Undated == {i \in 1..Len(tournaments) : tournaments[i].start_date = << >>}

PrizeSum(T) ==
    LET S == {ij \in KeptTournaments \X (1..1 + MaxTournaments) :
                 /\ ij[2] <= Len(tournaments[ij[1]].rewards)
                 /\ StrUpper(tournaments[ij[1]].rewards[ij[2]].token) = T}
    IN SumOver(S, [ij \in S |-> tournaments[ij[1]].rewards[ij[2]].amount])

FeeSum(T) ==
    LET S == {i \in KeptTournaments :
                 /\ tournaments[i].entry_fee # << >>
                 /\ StrUpper(tournaments[i].entry_fee[1].token) = T}
    IN SumOver(S, [i \in S |-> tournaments[i].entry_fee[1].amount])

C4_UndatedTournamentsKept ==
    pc = "done" =>
        /\ IsRestriction(tournaments_list, tournaments, KeptTournaments)
        /\ Returned =>
              \A T \in TokenKeys :
                 /\ Get(totals.tournament.token_amounts, T) = PrizeSum(T)
                 /\ Get(totals.entry_fees.token_amounts, T) = FeeSum(T)

C4_Witness ==
    /\ Returned
    /\ Undated # {}
    /\ totals.tournament.token_amounts # EmptyDict
    /\ totals.entry_fees.token_amounts # EmptyDict

----------------------------------------------------------------------------
(* C5: an in-window reward is counted in ranked exactly when its type is   *)
(* a spelling of modern, wild or survival, in brawl exactly when it is a   *)
(* spelling of brawl, and in neither bucket for any other type; no reward  *)
(* is counted in both.                                                     *)
C5_CategoryByLowercasedType ==
    Returned =>
        \A T \in TokenKeys :
            /\ Get(totals.ranked.token_amounts, T) =
                  SumAmounts(rewards_list,
                             [i \in 1..Len(rewards_list) |->
                                 rewards_list[i].type \in RankedSpellings], T)
            /\ Get(totals.brawl.token_amounts, T) =
                  SumAmounts(rewards_list,
                             [i \in 1..Len(rewards_list) |->
                                 rewards_list[i].type \in BrawlSpellings], T)

C5_Witness ==
    /\ Returned
    /\ Len(rewards_list) = 2
    /\ rewards_list[1].type = "SURVIVAL"
    /\ rewards_list[2].type = "season"
    /\ totals.ranked.token_amounts = [k \in {"SPS"} |-> 2]
    /\ totals.brawl.token_amounts = EmptyDict

----------------------------------------------------------------------------
(* C6: a feed row with a malformed token or amount field is skipped and    *)
(* the totals are those of the well-formed rows alone: for every token the *)
(* ranked and the brawl total are the sums over the in-window feed rows    *)
(* that have a string token and a numeric amount, and no error is raised.  *)
WellFormed(raw) ==
    raw.token # JsonNull /\ raw.amount.t \in {"num", "numstr"}

WellFormedSum(spellings, T) ==
    LET S == {i \in 1..Len(feed) :
                 /\ WellFormed(feed[i])
                 /\ feed[i].type \in spellings
                 /\ InWindow(feed[i].created_date)
                 /\ StrUpper(feed[i].token) = T}
    IN SumOver(S, [i \in S |-> FeedAmount(feed[i])])

C6_MalformedRowsSkipped ==
    pc = "done" =>
        /\ totals.raised = ""
        /\ \A T \in TokenKeys :
              /\ Get(totals.ranked.token_amounts, T) = WellFormedSum(RankedSpellings, T)
              /\ Get(totals.brawl.token_amounts, T) = WellFormedSum(BrawlSpellings, T)

----------------------------------------------------------------------------
(* C7: in every USD total of aggregate_totals a token whose quote in the   *)
(* price snapshot is zero or negative contributes exactly 0, like a token  *)
(* without a quote: each usd is the sum of amount * quote over the tokens  *)
(* that have a positive quote.                                             *)
PositiveQuote(T) ==
    LET q == PriceQuotes_get(prices, T)
    IN IF q.t = "num" /\ q.n > 0 THEN q.n ELSE 0

UsdAtPositiveQuotes(token_amounts) ==
    SumOver(DOMAIN token_amounts,
            [T \in DOMAIN token_amounts |-> token_amounts[T] * PositiveQuote(T)])

C7_NonPositiveQuoteContributesZero ==
    Returned =>
        /\ totals.ranked.usd = UsdAtPositiveQuotes(totals.ranked.token_amounts)
        /\ totals.brawl.usd = UsdAtPositiveQuotes(totals.brawl.token_amounts)
        /\ totals.tournament.usd = UsdAtPositiveQuotes(totals.tournament.token_amounts)
        /\ totals.entry_fees.usd = UsdAtPositiveQuotes(totals.entry_fees.token_amounts)
        /\ totals.overall.usd = UsdAtPositiveQuotes(totals.overall.token_amounts)

(* The second half of C7: fetch_prices stores no zero or negative quote. *)
FetchPricesStoresPositiveQuotes ==
    pc = "priced" =>
        \A k \in DOMAIN prices : prices[k].t = "num" /\ prices[k].n > 0

----------------------------------------------------------------------------
(* C8: fetch_prices drops a quote exactly when its token, lower-cased, has *)
(* a ceiling and the quote is strictly above it; otherwise the quote is    *)
(* stored unchanged, never the ceiling in its place.  The snapshot holds,  *)
(* for each token, the last quote of the payload that was not dropped.     *)
(* sps at 1.5 is dropped, sps at 0.35 is stored.                           *)
QuoteOf(i) == _extract_price(price_payload[i][2])

AboveCeiling(k, q) == k \in DOMAIN ceilings /\ q > ceilings[k]

Accepted(k) ==
    {i \in 1..Len(price_payload) :
        /\ StrLower(price_payload[i][1]) = k
        /\ QuoteOf(i) # << >>
        /\ ~AboveCeiling(k, QuoteOf(i)[1])}

Last(S) == CHOOSE i \in S : \A j \in S : j <= i

C8_QuoteAboveCeilingDiscarded ==
    pc = "priced" =>
        /\ \A k \in {"sps", "dec", "eth"} :
              IF Accepted(k) = {} THEN k \notin DOMAIN prices
              ELSE k \in DOMAIN prices
                   /\ prices[k] = Num(QuoteOf(Last(Accepted(k)))[1])
        /\ DOMAIN prices \subseteq {"sps", "dec", "eth"}
        /\ price_payload = << << "sps", Num(150) >> >> => prices = EmptyDict
        /\ price_payload = << << "sps", Num(35) >> >>
              => prices = [k \in {"sps"} |-> Num(35)]

C8_Witness ==
    /\ pc = "priced"
    /\ price_payload = << << "sps", Num(35) >>, << "SPS", Num(150) >> >>
    /\ prices = [k \in {"sps"} |-> Num(35)]

----------------------------------------------------------------------------
(* C9: for a nested quote both extractors return the first numeric value   *)
(* among the keys usd, USD, price, last, close in that order and, when     *)
(* none of these is numeric, the first numeric value of the object; a bare *)
(* number is returned as it is.  Stated for quotes whose numbers are all   *)
(* positive JSON numbers, where "numeric" and "absent" are not in doubt.   *)
PlainQuote(value) ==
    /\ value.t \in {"num", "dict"}
    /\ value.t = "num" => value.n > 0
    /\ \A i \in 1..Len(value.items) :
          /\ value.items[i][2].t # "numstr"
          /\ value.items[i][2].t = "num" => value.items[i][2].n > 0

FirstNumericOf(value) ==
    IF value.t = "num" THEN << value.n >>
    ELSE LET named == {i \in 1..Len(PRICE_KEYS) :
                          DictValueOf(value, PRICE_KEYS[i]).t = "num"}
             any == {i \in 1..Len(value.items) : value.items[i][2].t = "num"}
         IN IF named # {}
            THEN << DictValueOf(value, PRICE_KEYS[CHOOSE i \in named :
                                                    \A j \in named : i <= j]).n >>
            ELSE IF any # {}
            THEN << value.items[CHOOSE i \in any : \A j \in any : i <= j][2].n >>
            ELSE << >>

C9_BothExtractorsUnwrapNestedQuotes ==
    pc = "extracted" /\ PlainQuote(quote) =>
        /\ coerced = FirstNumericOf(quote)
        /\ extracted = FirstNumericOf(quote)

----------------------------------------------------------------------------
----------------------------------------------------------------------------
(* Rendering the scholar share *)

Rendered == pc = "rendered"

HasQuote(cur) ==
    Truthy(PyOr(PriceQuotes_get(prices, StrUpper(cur)),
                PriceQuotes_get(prices, StrLower(StrUpper(cur)))))

Unavailable == [kind |-> "dash", amount |-> 0, currency |-> "", usd |-> 0]

(* C11: whenever the scholar share has been rendered in a target currency  *)
(* for which the price snapshot has no quote, the result is the            *)
(* unavailable marker "-", whatever the scholar amount is, zero included;  *)
(* it is never a zero amount in that currency.  (Stated for the targets    *)
(* that need a conversion: USD is rendered without a quote, and the SPS    *)
(* amount is taken from the token totals.)                                 *)
C11_NoQuoteRendersUnavailable ==
    (Rendered /\ StrUpper(currency) \notin {"USD", "SPS"} /\ ~HasQuote(currency))
        => payout_display = Unavailable

(* C12: whenever the scholar share of an account's totals has been         *)
(* rendered (no explicit amount overrides it), in USD the value shown is   *)
(* scholar_usd = overall_usd * scholar_pct / 100 whatever quotes the       *)
(* snapshot holds, and in a target currency with a quote the amount shown  *)
(* is scholar_usd divided by that quote.                                   *)
C12_UsdRendersScholarUsd ==
    (Rendered /\ explicit_sps = << >>) =>
        /\ StrUpper(currency) = "USD" =>
               /\ payout_display.kind = "usd"
               /\ payout_display.usd = RoundHalfEven(scholar_share_usd, 100)
        /\ (StrUpper(currency) # "USD" /\ HasQuote(currency)) =>
               /\ payout_display.currency = StrUpper(currency)
               /\ payout_display.amount =
                     RoundHalfEven(scholar_share_usd,
                         PyOr(PriceQuotes_get(prices, StrUpper(currency)),
                              PriceQuotes_get(prices, StrLower(StrUpper(currency)))).n)

----------------------------------------------------------------------------
(* The scholar percentage of the sync commands *)

(* C13: every scholar percentage stored with a season snapshot lies in     *)
(* [0,100]: a --scholar-pct outside that range is rejected before the      *)
(* upsert is invoked.                                                      *)
C13_StoredScholarPctInRange ==
    \A i \in 1..Len(season_table) :
        0 <= season_table[i].scholar_pct /\ season_table[i].scholar_pct <= 100

----------------------------------------------------------------------------
(* The points evaluator *)

Scored == pc = "scored" /\ scheme_def # << >>

SchemeMode ==
    IF StrLower(scheme_def[1].mode) = "multiplier" THEN "multiplier" ELSE "fixed"

(* The rules whose [min, max] range contains the finish f. *)
Containing(f) ==
    {i \in 1..Len(scheme_def[1].rules) :
        LET rule == scheme_def[1].rules[i]
        IN /\ rule.min # << >>
           /\ rule.min[1] <= f
           /\ (rule.max = << >> \/ f <= rule.max[1])}

Earliest(S) == CHOOSE i \in S : \A j \in S : i <= j

(* C14: the points of a row whose finish some rule contains are the points *)
(* of the earliest such rule of scheme.rules; rules listed after it never  *)
(* change the result, whatever the rule table is.                          *)
C14_FirstMatchWins ==
    Scored =>
        \A i \in 1..Len(result_rows) :
            LET row == result_rows[i]
            IN (row.finish # << >> /\ Containing(row.finish[1]) # {}) =>
                  row.points =
                     << RulePoints(SchemeMode, OrZero(scheme_def[1].base_points),
                            scheme_def[1].rules[Earliest(Containing(row.finish[1]))]) >>

C14_Witness ==
    /\ Scored
    /\ \E i \in 1..Len(result_rows) :
          LET row == result_rows[i]
              rules == scheme_def[1].rules
          IN /\ row.finish = << 2 >>
             /\ Containing(2) = {1, 2}
             /\ rules[1].points = << 5 >>
             /\ rules[2].points = << 0 >>
             /\ SchemeMode = "fixed"
             /\ row.points = << 70 >>

(* C15: the points of a row whose finish a rule contains are               *)
(* base_points + rule.points in fixed mode and                             *)
(* base_points * rule.multiplier in multiplier mode, for every value the   *)
(* rule gives, 0 included.                                                 *)
C15_MatchedRuleValue ==
    Scored =>
        \A i \in 1..Len(result_rows) :
            LET row == result_rows[i]
            IN (row.finish # << >> /\ Containing(row.finish[1]) # {}) =>
                  LET rule == scheme_def[1].rules[Earliest(Containing(row.finish[1]))]
                      base == OrZero(scheme_def[1].base_points)
                  IN /\ (SchemeMode = "fixed" /\ rule.points # << >>) =>
                            row.points = << (base + rule.points[1]) * TENTH >>
                     /\ (SchemeMode = "multiplier" /\ rule.multiplier # << >>) =>
                            row.points = << base * rule.multiplier[1] >>

(* C16: the points of a row are scheme.dnp_points when its finish is null  *)
(* and when no rule contains its finish, a finish below every rule's min   *)
(* included; such a row never gets another value and never none.           *)
C16_GapYieldsDnpPoints ==
    Scored =>
        \A i \in 1..Len(result_rows) :
            LET row == result_rows[i]
            IN (row.finish = << >> \/ Containing(row.finish[1]) = {}) =>
                  row.points = << OrZero(scheme_def[1].dnp_points) * TENTH >>

C16_Witness ==
    /\ Scored
    /\ scheme_def[1].dnp_points = << 1 >>
    /\ Len(scheme_def[1].rules) = 2
    /\ \A i \in 1..2 : scheme_def[1].rules[i].min = << 1 >>
    /\ \E i \in 1..Len(result_rows) :
          /\ result_rows[i].finish = << 0 >>
          /\ result_rows[i].points = << 10 >>

(* C20: when the registry returns nothing, or no definition under the      *)
(* selected slug, and the slug is balanced, performance or participation,  *)
(* the scheme used is the built-in definition of that slug, and scoring a  *)
(* live leaderboard gives one row with a number of points per entry.       *)
C20_RegistryFallback ==
    (/\ pc \in {"resolved", "scored"}
     /\ scheme \in {"balanced", "performance", "participation"}
     /\ \A i \in 1..Len(schemes) : schemes[i].slug # scheme)
        => /\ scheme_def = << DEFAULT_POINT_SCHEMES[scheme] >>
           /\ pc = "scored" =>
                 /\ Len(result_rows) = Len(leaderboard)
                 /\ \A i \in 1..Len(result_rows) : result_rows[i].points # << >>

C20_Witness ==
    /\ pc = "scored"
    /\ schemes = << >>
    /\ scheme = "participation"
    /\ Len(result_rows) = 3
    /\ result_rows[1].points = << 30 >>
    /\ result_rows[2].points = << 25 >>
    /\ result_rows[3].points = << 0 >>

----------------------------------------------------------------------------
(* The series leaderboard *)

Shown == pc = "leaderboard" /\ result_rows # << >>

PlayerOf(i) == StrStrip(result_rows[i].player)

Players == {PlayerOf(i) : i \in 1..Len(result_rows)} \ {""}

RowsOf(p) == {i \in 1..Len(result_rows) : PlayerOf(i) = p}

FirstRowOf(p) == CHOOSE i \in RowsOf(p) : \A j \in RowsOf(p) : i <= j

FinishedRowsOf(p) == {i \in RowsOf(p) : result_rows[i].finish # << >>}

IsMarker(row) == row.Points = << >>

PlayerRows == {i \in 1..Len(total_rows) : ~IsMarker(total_rows[i])}

Markers == {i \in 1..Len(total_rows) : IsMarker(total_rows[i])}

(* C17: after the fold every player of the result rows has one             *)
(* accumulator and one leaderboard row: points is the sum of the points of *)
(* the player's rows, events their number, podiums the number of them with *)
(* 1 <= finish <= 3, finishes their non-null finishes; best_finish is the  *)
(* minimum and avg_finish the mean of finishes, both null without any.     *)
C17_FoldPerPlayer ==
    Shown =>
        /\ {totals_map[k].player : k \in 1..Len(totals_map)} = Players
        /\ Len(totals_map) = Cardinality(Players)
        /\ Cardinality(PlayerRows) = Cardinality(Players)
        /\ \A k \in 1..Len(totals_map) :
              LET agg == totals_map[k]
                  mine == RowsOf(agg.player)
                  finished == FinishedRowsOf(agg.player)
              IN /\ agg.points =
                       SumOver(mine, [i \in mine |->
                           IF result_rows[i].points = << >> THEN 0
                           ELSE result_rows[i].points[1]])
                 /\ agg.events = Cardinality(mine)
                 /\ agg.podiums =
                       Cardinality({i \in finished :
                           result_rows[i].finish[1] \in 1..3})
                 /\ Len(agg.finishes) = Cardinality(finished)
                 /\ \A f \in 0..5 :
                       Cardinality({n \in 1..Len(agg.finishes) : agg.finishes[n] = f})
                       = Cardinality({i \in finished : result_rows[i].finish[1] = f})
                 /\ \E r \in PlayerRows :
                       LET row == total_rows[r]
                       IN /\ row.Player = agg.player
                          /\ row.Points = << agg.points >>
                          /\ row.Events = agg.events
                          /\ row.Podiums = agg.podiums
                          /\ (finished = {}) =>
                                (row.Best = << >> /\ row.Avg_Finish = << >>)
                          /\ (finished # {}) =>
                                /\ row.Best # << >>
                                /\ \E i \in finished :
                                      result_rows[i].finish[1] = row.Best[1]
                                /\ \A i \in finished :
                                      row.Best[1] <= result_rows[i].finish[1]
                                /\ row.Avg_Finish =
                                      << [num |-> SumOver(finished,
                                              [i \in finished |-> result_rows[i].finish[1]]),
                                          den |-> Cardinality(finished)] >>

C17_Witness ==
    /\ Shown
    /\ result_rows = << Result("alice", << 250 >>, << 1 >>),
                        Result("bob", << 80 >>, << >>),
                        Result("alice", << 80 >>, << 5 >>) >>
    /\ totals_map[1] = [player |-> "alice", points |-> 330, events |-> 2,
                        finishes |-> << 1, 5 >>, podiums |-> 1]
    /\ \E r \in PlayerRows :
          /\ total_rows[r].Player = "alice"
          /\ total_rows[r].Best = << 1 >>
          /\ total_rows[r].Avg_Finish = << [num |-> 6, den |-> 2] >>
    /\ \E r \in PlayerRows :
          /\ total_rows[r].Player = "bob"
          /\ total_rows[r].Best = << >>
          /\ total_rows[r].Avg_Finish = << >>

(* C18: with a positive cutoff exactly the players with points >= cutoff   *)
(* are marked as qualifying; if one qualifies there is exactly one cutoff  *)
(* marker, every row before it qualifies and no row after it does; if      *)
(* nobody qualifies, or the cutoff is null or not positive, there is no    *)
(* marker.                                                                 *)
C18_CutoffMarker ==
    Shown =>
        IF cutoff # << >> /\ cutoff[1] > 0
        THEN /\ \A r \in PlayerRows :
                   total_rows[r].ticket <=> total_rows[r].Points[1] >= cutoff[1]
             /\ (\E r \in PlayerRows : total_rows[r].ticket)
                   => /\ Cardinality(Markers) = 1
                      /\ \A m \in Markers, r \in PlayerRows :
                            /\ r < m => total_rows[r].ticket
                            /\ r > m => ~total_rows[r].ticket
                      /\ \A m \in Markers : m > 1
             /\ (\A r \in PlayerRows : ~total_rows[r].ticket) => Markers = {}
        ELSE /\ Markers = {}
             /\ \A r \in PlayerRows : ~total_rows[r].ticket

C18_Witness ==
    /\ Shown
    /\ cutoff = << 250 >>
    /\ Len(total_rows) = 5
    /\ total_rows[1].Points = << 400 >> /\ total_rows[1].ticket
    /\ total_rows[2].Points = << 330 >> /\ total_rows[2].ticket
    /\ IsMarker(total_rows[3])
    /\ total_rows[4].Points = << 200 >> /\ ~total_rows[4].ticket
    /\ total_rows[5].Points = << 100 >> /\ ~total_rows[5].ticket

(* C19: the players of the leaderboard are in order of non-increasing      *)
(* points, and of two players with equal points the one whose first result *)
(* row comes first is first.                                               *)
C19_SortedStable ==
    Shown =>
        \A r1, r2 \in PlayerRows :
            r1 < r2 =>
                /\ total_rows[r1].Points[1] >= total_rows[r2].Points[1]
                /\ total_rows[r1].Points[1] = total_rows[r2].Points[1]
                      => FirstRowOf(total_rows[r1].Player)
                             < FirstRowOf(total_rows[r2].Player)

C19_Witness ==
    /\ Shown
    /\ result_rows = << Result("carol", << 120 >>, << 2 >>),
                        Result("bob", << 250 >>, << 1 >>),
                        Result("alice", << 250 >>, << 1 >>) >>
    /\ cutoff = << >>
    /\ [r \in 1..3 |-> total_rows[r].Player] = << "bob", "alice", "carol" >>

----------------------------------------------------------------------------
(* The stored season record *)

(* The record upsert_season_totals writes for the totals held in `totals`, *)
(* for the username and percentage of the loaded record.                   *)
LoadedIsRecordOfTotals ==
    /\ pc = "history"
    /\ totals.raised = ""
    /\ history_record =
          upsert_season_totals(<< >>, season, history_record[1].username,
                               totals, history_record[1].scholar_pct)

(* C21: totals written to a season record and read back are the same     *)
(* totals: every category keeps its token amounts and its usd, overall    *)
(* keeps its token amounts and its usd, and the entry fees are in neither. *)
C21_RecordRoundTrip ==
    LoadedIsRecordOfTotals => history_totals = totals

(* The part of C21 the code keeps: a record whose overall_usd is not 0    *)
(* reads back as the totals it was written from.                           *)
RecordRoundTripUnlessZero ==
    (LoadedIsRecordOfTotals /\ totals.overall.usd # 0)
        => history_totals = totals

----------------------------------------------------------------------------
(* Aggregation is a function of its inputs *)

----------------------------------------------------------------------------
(* USD totals at the quotes of the snapshot *)

HasSnapshotQuote(T) ==
    StrLower(T) \in DOMAIN prices \/ StrUpper(T) \in DOMAIN prices

(* The quote the snapshot holds for a token, under its lower-case key or   *)
(* its upper-case key; 0 for a token the snapshot does not quote.          *)
SnapshotQuote(T) ==
    IF StrLower(T) \in DOMAIN prices THEN prices[StrLower(T)].n
    ELSE IF StrUpper(T) \in DOMAIN prices THEN prices[StrUpper(T)].n
    ELSE 0

UsdAtSnapshot(token_amounts) ==
    SumOver(DOMAIN token_amounts,
            [T \in DOMAIN token_amounts |-> token_amounts[T] * SnapshotQuote(T)])

NumericSnapshot == \A k \in DOMAIN prices : prices[k].t = "num"

----------------------------------------------------------------------------
(* The Current and the Previous window *)

Elements(seq) == {seq[i] : i \in 1..Len(seq)}

(* C30: the current window and the window _previous_season derives from   *)
(* it do not overlap: no reward and no dated tournament is kept by the     *)
(* season filter for both, so nothing is counted in the Current and in the *)
(* Previous totals.                                                        *)
C30_WindowsDisjoint ==
    pc = "previous" =>
        /\ previous_season[1].id = season.id - 1
        /\ previous_season[1].ends - previous_season[1].starts
              = season.ends - season.starts
        /\ Elements(rewards_list) \cap Elements(previous_rewards_list) = {}
        /\ \A t \in Elements(tournaments_list)
                       \cap Elements(previous_tournaments_list) :
              t.start_date = << >>

(* The part of C30 the code keeps: only an event dated at the very start   *)
(* of the current window is kept for both windows.                         *)
WindowsShareOnlyTheStart ==
    pc = "previous" =>
        /\ \A r \in Elements(rewards_list) \cap Elements(previous_rewards_list) :
              r.created_date = season.starts
        /\ \A t \in Elements(tournaments_list)
                       \cap Elements(previous_tournaments_list) :
              t.start_date \in {<< >>, << season.starts >>}

----------------------------------------------------------------------------
(* The fold and the order of the result rows *)

Reorderings(n) ==
    {f \in [1..n -> 1..n] : \A i, j \in 1..n : f[i] = f[j] => i = j}

Reordered(f) == [i \in 1..Len(result_rows) |-> result_rows[f[i]]]

(* The per-player totals of an accumulator map, whatever its order. *)
TotalsOf(map) == {total_row(map[k]) : k \in 1..Len(map)}

----------------------------------------------------------------------------
(* The accumulators of the fold *)

NamedRows == {i \in 1..Len(result_rows) : PlayerOf(i) # ""}

(* C29: after the fold every accumulator has 0 <= podiums <= number of     *)
(* recorded finishes <= events and events >= 1; the events of all players  *)
(* add up to the number of rows with a player name, and the rows without   *)
(* one (missing, empty or blank) leave every accumulator as it was.        *)
C29_AccumulatorBounds ==
    Shown =>
        /\ \A k \in 1..Len(totals_map) :
              /\ 0 <= totals_map[k].podiums
              /\ totals_map[k].podiums <= Len(totals_map[k].finishes)
              /\ Len(totals_map[k].finishes) <= totals_map[k].events
              /\ totals_map[k].events >= 1
        /\ SumOver(1..Len(totals_map),
                   [k \in 1..Len(totals_map) |-> totals_map[k].events])
              = Cardinality(NamedRows)
        /\ totals_map =
              fold_result_rows(SelectSeq(result_rows,
                                   LAMBDA row : StrStrip(row.player) # ""),
                               << >>)

(* A blank-named row between two rows of a player who has a podium, a      *)
(* finish off the podium or no finish.                                     *)
C29_Witness ==
    /\ Shown
    /\ Len(result_rows) = 3
    /\ result_rows[2].player \in {"", " "}
    /\ Len(totals_map) = 1
    /\ totals_map[1].events = 2
    /\ totals_map[1].podiums = 1
    /\ Len(totals_map[1].finishes) \in {1, 2}

----------------------------------------------------------------------------
(* The built-in point schemes *)

BuiltInScored ==
    /\ Scored
    /\ scheme \in DOMAIN DEFAULT_POINT_SCHEMES
    /\ scheme_def = << DEFAULT_POINT_SCHEMES[scheme] >>

Placed == {i \in 1..Len(result_rows) :
              result_rows[i].finish # << >> /\ result_rows[i].finish[1] >= 1}

(* C28: the rules of a built-in scheme tile the finishes from 1 upwards    *)
(* (the first starts at 1, each next one starts right after the one        *)
(* before, the last is open-ended), so every finish >= 1 is in exactly one *)
(* rule; a placed finish is never scored with dnp_points, and a worse      *)
(* finish never scores more than a better one.                             *)
C28_BuiltInSchemesTile ==
    BuiltInScored =>
        LET rules == scheme_def[1].rules
            dnp == OrZero(scheme_def[1].dnp_points) * TENTH
        IN /\ rules[1].min = << 1 >>
           /\ rules[Len(rules)].max = << >>
           /\ \A k \in 1..(Len(rules) - 1) :
                 /\ rules[k].max # << >>
                 /\ rules[k].min[1] <= rules[k].max[1]
                 /\ rules[k + 1].min = << rules[k].max[1] + 1 >>
           /\ \A i \in Placed :
                 /\ Cardinality(Containing(result_rows[i].finish[1])) = 1
                 /\ result_rows[i].points # << >>
                 /\ result_rows[i].points[1] > dnp
           /\ \A i, j \in Placed :
                 result_rows[i].finish[1] <= result_rows[j].finish[1]
                     => result_rows[i].points[1] >= result_rows[j].points[1]

(* A full field scored with the participation scheme the page fell back    *)
(* to: 3.0 for the winner, 1.0 from place 17 on.                           *)
C28_Witness ==
    /\ BuiltInScored
    /\ schemes = << >>
    /\ scheme = "participation"
    /\ Len(result_rows) = MaxPlacings
    /\ result_rows[1].points = << 30 >>
    /\ result_rows[16].points = << 12 >>
    /\ result_rows[MaxPlacings].finish = << MaxPlacings >>
    /\ result_rows[MaxPlacings].points = << 10 >>

----------------------------------------------------------------------------
(* The paged reward feed *)

Paged == pc = "paged"

(* The rows of the feed the season asks for. *)
WantedRows ==
    {i \in 1..Len(feed) :
        /\ feed[i].amount.n > 0
        /\ season.starts <= feed[i].created_date
        /\ feed[i].created_date <= season.ends}

(* The page at offset o is empty, short, or reaches before the season. *)
StopsAt(o) ==
    \/ o >= Len(feed)
    \/ o + page_limit > Len(feed)
    \/ \E i \in (o + 1)..(o + page_limit) : feed[i].created_date < season.starts

(* The loop ended at the first page that stops it and returned the wanted  *)
(* rows, each once, newest first.                                          *)
PagedExact ==
    Paged =>
        /\ StopsAt(offset)
        /\ \A n \in 0..Len(feed) :
              n * page_limit < offset => ~StopsAt(n * page_limit)
        /\ {rewards[k].id : k \in 1..Len(rewards)} = WantedRows
        /\ Len(rewards) = Cardinality(WantedRows)
        /\ \A k \in 1..Len(rewards) :
              /\ rewards[k].amount = feed[rewards[k].id].amount.n
              /\ rewards[k].created_date = feed[rewards[k].id].created_date
        /\ \A k, l \in 1..Len(rewards) :
              k <= l => rewards[k].created_date >= rewards[l].created_date

----------------------------------------------------------------------------
(* The refresh of the tournament ingest *)

Refreshed == pc = "refreshed"

IngestSucceeded(i) ==
    ingested[i].fetched /\ ingested[i].events /\ ingested[i].results

(* C24: refresh_tournament_ingest_all returns True only with credentials   *)
(* and with every organizer's tournaments fetched and its event and result *)
(* rows stored; it returns False, leaving an error to read, without        *)
(* credentials, without organizers and when a fetch or an upsert of any    *)
(* organizer failed; an organizer that failed does not keep the ones after *)
(* it from being ingested.                                                 *)
C24_RefreshReportsFailures ==
    Refreshed =>
        /\ ok = << TRUE >> =>
              /\ creds
              /\ organizers # << >>
              /\ \A i \in 1..Len(organizers) : IngestSucceeded(i)
        /\ ok = << FALSE >> => last_error # << >>
        /\ (~creds \/ organizers = << >>) => ok = << FALSE >>
        /\ (\E i \in 1..Len(ingested) : ~IngestSucceeded(i)) => ok = << FALSE >>
        /\ (creds /\ organizers # << >>) => Len(ingested) = Len(organizers)

(* The part of C24 the code keeps: True needs credentials, organizers and  *)
(* no exception; False leaves an error; every organizer is attempted.      *)
RefreshReportsExceptions ==
    Refreshed =>
        /\ ok = << TRUE >> =>
              /\ creds
              /\ organizers # << >>
              /\ \A i \in 1..Len(organizers) : ~ingested[i].raised
        /\ ok = << FALSE >> => last_error # << >>
        /\ (~creds \/ organizers = << >>) => ok = << FALSE >>
        /\ (\E i \in 1..Len(ingested) : ingested[i].raised) => ok = << FALSE >>
        /\ (creds /\ organizers # << >>) => Len(ingested) = Len(organizers)

----------------------------------------------------------------------------
(* The shared last-error slot *)

Other(session) == 3 - session

ReadAfterFailure(session) ==
    sessions[session].at = "shown" /\ sessions[session].outcome = "failed"

(* C25: the shared last-error slot races under concurrent calls: a caller  *)
(* whose fetch failed reads from get_last_supabase_error() its own         *)
(* message, or None when the credential check of the other session's       *)
(* operation cleared the slot in between, or the other session's message   *)
(* when that operation failed in between; it reads its own message         *)
(* whenever the other session stayed idle.                                 *)
C25_LastErrorRace ==
    pc = "race" =>
        \A session \in Sessions :
            ReadAfterFailure(session) =>
                /\ sessions[session].seen \in
                      {<< FetchFailed(session) >>, << >>,
                       << FetchFailed(Other(session)) >>}
                /\ sessions[session].seen = << >> =>
                      sessions[Other(session)].at # "idle"
                /\ sessions[session].seen = << FetchFailed(Other(session)) >> =>
                      sessions[Other(session)].outcome = "failed"

(* A caller whose fetch failed is told there was no error: the other       *)
(* session's credential check cleared the slot before the read.            *)
C25_Witness ==
    \E session \in Sessions :
        /\ ReadAfterFailure(session)
        /\ sessions[session].seen = << >>
        /\ sessions[Other(session)].at = "request"

(* A caller whose fetch failed is shown the other session's message. *)
ReadsTheOthersFailure ==
    \E session \in Sessions :
        /\ ReadAfterFailure(session)
        /\ sessions[session].seen = << FetchFailed(Other(session)) >>

====
